---------------------------- MODULE Spec2Model ----------------------------
(***************************************************************************)
(* Model of poirebot: the bitboard position (Board / BoardSide), move      *)
(* application (Board::apply_move), the pseudo-legal move generator        *)
(* (list_potential_moves and the per-piece routines), FEN intake and the   *)
(* pure coordinate move notation.                                          *)
(*                                                                         *)
(* Representation.  A BitBoard (u64) is the set of its set bits, a subset  *)
(* of 0..63; bit i is square i = rank_y * 8 + file_x (Position::to_int).   *)
(* A Position is represented by that index.  A Move is the triple          *)
(* <<origin, destination, promotion>>.  Text is a sequence of              *)
(* one-character strings.                                                  *)
(***************************************************************************)
EXTENDS Integers, Sequences, FiniteSets, TLC

\* ------------------------------------------------------------------------
\* Bounds of the model
\* ------------------------------------------------------------------------

\* Largest number of half-moves applied to the board of one game.
MaxPlies == 2

\* Depth of the root search (4 in Brain::choose_move).
SearchDepth == 2

\* Largest number of messages sent to the channel of the per-game task after
\* the message it was spawned with.
MaxMessages == 3

\* Largest number of steps taken by the tasks of other games.
MaxOthers == 1

\* Largest number of pieces placed on one line through the sliding piece
\* whose ray routines are called on their own.
MaxBlockers == 2

\* Largest number of per-game tasks spawned for one game id.
MaxTasks == 2

\* Highest level of the computer opponent.
MaxLevel == 8

\* Largest number of GameFinish events handled in a run.
MaxFinishes == 2

\* ------------------------------------------------------------------------
\* bitboard.rs
\* ------------------------------------------------------------------------

Squares == 0..63

EMPTY == {}

\* BitBoard(self.0 << rhs): bits shifted past bit 63 are dropped.
Shl(bb, n) == {s + n : s \in {x \in bb : x + n <= 63}}

\* BitBoard(self.0 >> rhs)
Shr(bb, n) == {s - n : s \in {x \in bb : x >= n}}

\* BitBoard(!self.0)
Not(bb) == Squares \ bb

popcnt(bb) == Cardinality(bb)

\* trailing_zeros of a non-zero board: its lowest set bit.
to_position(bb) == CHOOSE s \in bb : \A t \in bb : s <= t

\* swap_bytes: rank r <-> rank 7 - r.
reverse_colors(bb) == {(7 - (s \div 8)) * 8 + (s % 8) : s \in bb}

\* ------------------------------------------------------------------------
\* game/position.rs
\* ------------------------------------------------------------------------

FILE_CHARS == <<"a", "b", "c", "d", "e", "f", "g", "h">>
RANK_CHARS == <<"1", "2", "3", "4", "5", "6", "7", "8">>

file_x(pos) == pos % 8
rank_y(pos) == pos \div 8

\* Position { file_x, rank_y } as its to_int() index.
Pos(f, r) == r * 8 + f

\* No position: the Err of from_notation.
NoPosition == -1

IndexOf(seq, c) == IF \E i \in 1..Len(seq) : seq[i] = c
                   THEN (CHOOSE i \in 1..Len(seq) : seq[i] = c) - 1
                   ELSE -1

\* Position::from_notation: Err unless two characters, a file and a rank.
from_notation(notation) ==
    IF Len(notation) # 2 THEN NoPosition
    ELSE IF IndexOf(FILE_CHARS, notation[1]) < 0 THEN NoPosition
    ELSE IF IndexOf(RANK_CHARS, notation[2]) < 0 THEN NoPosition
    ELSE Pos(IndexOf(FILE_CHARS, notation[1]), IndexOf(RANK_CHARS, notation[2]))

\* impl Display for Position
PositionDisplay(pos) == <<FILE_CHARS[file_x(pos) + 1], RANK_CHARS[rank_y(pos) + 1]>>

Opposite(color) == IF color = "White" THEN "Black" ELSE "White"

\* u8 clamp(0, 7)
Clamp07(r) == IF r > 7 THEN 7 ELSE r

\* Position::forwards on u8 ranks.  rank_y - inc below zero overflows: a
\* debug build panics (forwards_overflows), a release build wraps to
\* 256 + rank_y - inc, which clamp(0, 7) turns into 7.
forwards_overflows(pos, color, inc) == color = "Black" /\ rank_y(pos) < inc

forwards(pos, color, inc) ==
    LET rank == IF color = "Black"
                THEN (IF rank_y(pos) < inc THEN 256 + rank_y(pos) - inc
                      ELSE rank_y(pos) - inc)
                ELSE rank_y(pos) + inc
    IN  Pos(file_x(pos), Clamp07(rank))

backwards(pos, color, inc) == forwards(pos, Opposite(color), inc)

Abs(x) == IF x < 0 THEN -x ELSE x

distance_rank(a, b) == Abs(rank_y(a) - rank_y(b))

\* ------------------------------------------------------------------------
\* game/mod.rs: Move, Promotion and the pure coordinate notation
\* ------------------------------------------------------------------------

Promotions == {"Queen", "Rook", "Bishop", "Knight", "None"}

Move(origin, destination, promotion) == <<origin, destination, promotion>>

\* impl Display for Promotion
PromotionDisplay(p) ==
    CASE p = "Queen"  -> <<"q">>
      [] p = "Rook"   -> <<"r">>
      [] p = "Bishop" -> <<"b">>
      [] p = "Knight" -> <<"n">>
      [] OTHER        -> <<>>

\* impl From<&str> for Promotion
PromotionFrom(s) ==
    CASE s = <<"q">> -> "Queen"
      [] s = <<"r">> -> "Rook"
      [] s = <<"b">> -> "Bishop"
      [] s = <<"n">> -> "Knight"
      [] OTHER       -> "None"

\* notation.chars().skip(n).take(k).collect::<String>()
SkipTake(s, n, k) ==
    SubSeq(s, n + 1, IF n + k <= Len(s) THEN n + k ELSE Len(s))

to_pure_notation(m) ==
    PositionDisplay(m[1]) \o PositionDisplay(m[2]) \o PromotionDisplay(m[3])

\* The promotion is read from chars().skip(3).take(1).  An origin or a
\* destination that is no square (NoPosition) is the "invalid notation" panic.
from_pure_notation(notation) ==
    LET origin      == SkipTake(notation, 0, 2)
        destination == SkipTake(notation, 2, 2)
        promotion   == SkipTake(notation, 3, 1)
    IN  Move(from_notation(origin), from_notation(destination), PromotionFrom(promotion))

\* ------------------------------------------------------------------------
\* game/pieces/mod.rs: masks, pieces, castling and double-step helpers
\* ------------------------------------------------------------------------

Colors == {"White", "Black"}

\* FILES[f] and RANKS[r], indexed from 0 as in the source.
FILES(f) == {s \in Squares : s % 8 = f}
RANKS(r) == {s \in Squares : s \div 8 = r}

FILE_A == FILES(0)
FILE_B == FILES(1)
FILE_G == FILES(6)
FILE_H == FILES(7)
RANK_1 == RANKS(0)
RANK_2 == RANKS(1)
RANK_3 == RANKS(2)
RANK_4 == RANKS(3)
RANK_5 == RANKS(4)
RANK_6 == RANKS(5)
RANK_7 == RANKS(6)
RANK_8 == RANKS(7)

\* Option<Pieces>: a piece is its kind, colour and position; None is NoPiece.
Piece(kind, color, pos) == [kind |-> kind, color |-> color, pos |-> pos]
NoPiece == [kind |-> "None", color |-> "None", pos |-> NoPosition]

SqA1 == Pos(0, 0)
SqC1 == Pos(2, 0)
SqD1 == Pos(3, 0)
SqE1 == Pos(4, 0)
SqF1 == Pos(5, 0)
SqG1 == Pos(6, 0)
SqH1 == Pos(7, 0)
SqA8 == Pos(0, 7)
SqC8 == Pos(2, 7)
SqD8 == Pos(3, 7)
SqE8 == Pos(4, 7)
SqF8 == Pos(5, 7)
SqG8 == Pos(6, 7)
SqH8 == Pos(7, 7)

\* The rook's move of a castling king move, or NoMove.
NoMove == <<NoPosition, NoPosition, "None">>

\* Fault variant of get_castling_rook_move: the queenside rook is sent to
\* the king's destination (c-file) instead of the d-file.
get_castling_rook_move_queenside_to_c(king_move) ==
    IF king_move = Move(SqE1, SqC1, "None") THEN Move(SqA1, SqC1, "None")
    ELSE IF king_move = Move(SqE1, SqG1, "None") THEN Move(SqH1, SqF1, "None")
    ELSE IF king_move = Move(SqE8, SqC8, "None") THEN Move(SqA8, SqC8, "None")
    ELSE IF king_move = Move(SqE8, SqG8, "None") THEN Move(SqH8, SqF8, "None")
    ELSE NoMove

get_castling_rook_move(king_move) ==
    IF king_move = Move(SqE1, SqC1, "None") THEN Move(SqA1, SqD1, "None")
    ELSE IF king_move = Move(SqE1, SqG1, "None") THEN Move(SqH1, SqF1, "None")
    ELSE IF king_move = Move(SqE8, SqC8, "None") THEN Move(SqA8, SqD8, "None")
    ELSE IF king_move = Move(SqE8, SqG8, "None") THEN Move(SqH8, SqF8, "None")
    ELSE NoMove

is_pawn_two_step(pawn_move) ==
    /\ distance_rank(pawn_move[1], pawn_move[2]) = 2
    /\ (rank_y(pawn_move[1]) = 1 \/ rank_y(pawn_move[1]) = 6)

\* ------------------------------------------------------------------------
\* game/mod.rs: BoardSide and Board
\* ------------------------------------------------------------------------

\* BoardSide::refresh: the inherited fields.
refresh(side) == [side EXCEPT !.pieces = side.pawns \cup side.rooks \cup side.knights
                                          \cup side.bishops \cup side.queens \cup side.king,
                              !.attacks = EMPTY]

\* BoardSide::new with an empty closure.
EmptySide(color) ==
    [color |-> color, pawns |-> EMPTY, rooks |-> EMPTY, knights |-> EMPTY,
     bishops |-> EMPTY, queens |-> EMPTY, king |-> EMPTY, unmoved_rooks |-> EMPTY,
     en_passant_target |-> EMPTY, pieces |-> EMPTY, attacks |-> EMPTY,
     king_has_moved |-> FALSE]

\* BoardSide::get_piece: the kinds are tried in this order.
side_get_piece(side, position) ==
    IF position \in side.pawns THEN Piece("Pawn", side.color, position)
    ELSE IF position \in side.rooks THEN Piece("Rook", side.color, position)
    ELSE IF position \in side.knights THEN Piece("Knight", side.color, position)
    ELSE IF position \in side.bishops THEN Piece("Bishop", side.color, position)
    ELSE IF position \in side.queens THEN Piece("Queen", side.color, position)
    ELSE IF position \in side.king THEN Piece("King", side.color, position)
    ELSE NoPiece

\* Board::get_piece: white first, then black.
get_piece(board, position) ==
    IF side_get_piece(board.white, position) # NoPiece
    THEN side_get_piece(board.white, position)
    ELSE side_get_piece(board.black, position)

get_side(board, color) == IF color = "White" THEN board.white ELSE board.black

\* Board::get_bitboard
get_bitboard(board) == board.white.pieces \cup board.black.pieces

\* BoardSide::flip
flip(side) ==
    [color |-> Opposite(side.color),
     pawns |-> reverse_colors(side.pawns), rooks |-> reverse_colors(side.rooks),
     knights |-> reverse_colors(side.knights), bishops |-> reverse_colors(side.bishops),
     queens |-> reverse_colors(side.queens), king |-> reverse_colors(side.king),
     unmoved_rooks |-> reverse_colors(side.unmoved_rooks),
     en_passant_target |-> reverse_colors(side.en_passant_target),
     pieces |-> reverse_colors(side.pieces), attacks |-> reverse_colors(side.attacks),
     king_has_moved |-> side.king_has_moved]

\* impl Default for Board
DefaultBoard ==
    LET white == refresh([EmptySide("White") EXCEPT
                     !.pawns = RANK_2,
                     !.rooks = {SqA1, SqH1},
                     !.knights = {Pos(1, 0), Pos(6, 0)},
                     !.bishops = {Pos(2, 0), Pos(5, 0)},
                     !.queens = {SqD1},
                     !.king = {SqE1},
                     !.unmoved_rooks = {SqA1, SqH1}])
    IN  [white |-> white, black |-> flip(white)]

\* ------------------------------------------------------------------------
\* game/fen.rs: Board::from_fen
\*
\* A FEN is the sequence of its whitespace-separated fields, each a
\* sequence of characters.  The result is [status |-> "ok", board |-> b],
\* [status |-> "err", msg |-> ...] for an Err value, or
\* [status |-> "panic", msg |-> ...] where the routine panics.
\* ------------------------------------------------------------------------

STARTPOS == << <<"s", "t", "a", "r", "t", "p", "o", "s">> >>

DEFAULT_FEN ==
    << <<"r","n","b","q","k","b","n","r","/","p","p","p","p","p","p","p","p","/",
         "8","/","8","/","8","/","8","/",
         "P","P","P","P","P","P","P","P","/","R","N","B","Q","K","B","N","R">>,
       <<"w">>, <<"K","Q","k","q">>, <<"-">>, <<"0">>, <<"1">> >>

DIGITS == <<"0", "1", "2", "3", "4", "5", "6", "7", "8", "9">>

\* char::to_digit(10): the digit's value, or -1 for None.
to_digit(c) == IndexOf(DIGITS, c)

UPPER_PIECES == <<"P", "R", "N", "B", "Q", "K">>
LOWER_PIECES == <<"p", "r", "n", "b", "q", "k">>
PIECE_KINDS  == <<"Pawn", "Rook", "Knight", "Bishop", "Queen", "King">>

\* The kind named by piece.to_lowercase(), or "None" for any other character.
PieceKindOf(c) ==
    IF IndexOf(LOWER_PIECES, c) >= 0 THEN PIECE_KINDS[IndexOf(LOWER_PIECES, c) + 1]
    ELSE IF IndexOf(UPPER_PIECES, c) >= 0 THEN PIECE_KINDS[IndexOf(UPPER_PIECES, c) + 1]
    ELSE "None"

\* piece.is_uppercase(), for the characters PieceKindOf accepts.
is_uppercase(c) == IndexOf(UPPER_PIECES, c) >= 0

\* str::split(sep): always at least one part.
RECURSIVE SplitFrom(_, _, _, _)
SplitFrom(s, sep, i, cur) ==
    IF i > Len(s) THEN <<cur>>
    ELSE IF s[i] = sep THEN <<cur>> \o SplitFrom(s, sep, i + 1, <<>>)
    ELSE SplitFrom(s, sep, i + 1, Append(cur, s[i]))

Split(s, sep) == SplitFrom(s, sep, 1, <<>>)

contains(s, c) == \E i \in 1..Len(s) : s[i] = c

\* The inner loop over one rank's characters (fen.rs 32-56).  file is a u8:
\* file += skip wraps modulo 256 (a debug build panics there instead), and
\* (file, rank).into() panics when file > 7.
RECURSIVE ParseRank(_, _, _, _, _)
ParseRank(chars, i, file, rank, pieces) ==
    IF i > Len(chars)
    THEN (IF file # 8 THEN [status |-> "err", msg |-> "incomplete rank pieces"]
          ELSE [status |-> "ok", pieces |-> pieces])
    ELSE IF to_digit(chars[i]) >= 0
    THEN ParseRank(chars, i + 1, (file + to_digit(chars[i])) % 256, rank, pieces)
    ELSE IF PieceKindOf(chars[i]) = "None"
    THEN [status |-> "err", msg |-> "invalid piece descriptor"]
    ELSE IF file > 7
    THEN [status |-> "panic", msg |-> "invalid notation"]
    ELSE ParseRank(chars, i + 1, file + 1, rank,
                   pieces \cup {Piece(PieceKindOf(chars[i]),
                                      IF is_uppercase(chars[i]) THEN "White" ELSE "Black",
                                      Pos(file, rank))})

\* The outer loop over the eight ranks (fen.rs 28-57); ranks[k] is rank 8 - k.
RECURSIVE ParseRanks(_, _, _)
ParseRanks(ranks, k, pieces) ==
    IF k > Len(ranks) THEN [status |-> "ok", pieces |-> pieces]
    ELSE LET r == ParseRank(ranks[k], 1, 0, 7 - (k - 1), {})
         IN  IF r.status # "ok" THEN r
             ELSE ParseRanks(ranks, k + 1, pieces \cup r.pieces)

KindSquares(pieces, color, kind) ==
    {p.pos : p \in {q \in pieces : q.color = color /\ q.kind = kind}}

\* The two BoardSide::new closures (fen.rs 102-147).  ep is NoPosition for
\* "-", otherwise the square the field names; its rank decides the colour.
FenSide(pieces, color, castling, ep) ==
    LET queenside == IF color = "White" THEN contains(castling, "Q") ELSE contains(castling, "q")
        kingside  == IF color = "White" THEN contains(castling, "K") ELSE contains(castling, "k")
        qrook     == IF color = "White" THEN SqA1 ELSE SqA8
        krook     == IF color = "White" THEN SqH1 ELSE SqH8
        epcolor   == IF ep = NoPosition THEN "None"
                     ELSE IF rank_y(ep) = 2 THEN "White" ELSE "Black"
    IN  refresh([EmptySide(color) EXCEPT
            !.pawns = KindSquares(pieces, color, "Pawn"),
            !.rooks = KindSquares(pieces, color, "Rook"),
            !.knights = KindSquares(pieces, color, "Knight"),
            !.bishops = KindSquares(pieces, color, "Bishop"),
            !.queens = KindSquares(pieces, color, "Queen"),
            !.king = KindSquares(pieces, color, "King"),
            !.unmoved_rooks = (IF queenside THEN {qrook} ELSE {})
                              \cup (IF kingside THEN {krook} ELSE {}),
            !.en_passant_target = IF epcolor = color THEN {forwards(ep, color, 1)} ELSE {}])

from_fen_fields(fen) ==
    IF Len(fen) < 1 THEN [status |-> "err", msg |-> "no piece placement"]
    ELSE IF Len(Split(fen[1], "/")) # 8
    THEN [status |-> "err", msg |-> "piece placement does not have 8 ranks"]
    ELSE LET parsed == ParseRanks(Split(fen[1], "/"), 1, {})
         IN  IF parsed.status # "ok" THEN parsed
             ELSE IF Len(fen) < 2 THEN [status |-> "err", msg |-> "no active color"]
             ELSE IF Len(fen) < 3 THEN [status |-> "err", msg |-> "no castling availability"]
             ELSE IF Len(fen) < 4 THEN [status |-> "err", msg |-> "no en passant target square"]
             ELSE IF fen[4] # <<"-">> /\ from_notation(fen[4]) = NoPosition
             THEN [status |-> "err", msg |-> "invalid en passant target"]
             ELSE IF fen[4] # <<"-">> /\ rank_y(from_notation(fen[4])) \notin {2, 5}
             THEN [status |-> "err", msg |-> "impossible en passant target"]
             ELSE IF Len(fen) < 5 THEN [status |-> "err", msg |-> "no half-move clock"]
             ELSE IF Len(fen) < 6 THEN [status |-> "err", msg |-> "no full-move clock"]
             ELSE LET ep == IF fen[4] = <<"-">> THEN NoPosition ELSE from_notation(fen[4])
                  IN  [status |-> "ok",
                       board |-> [white |-> FenSide(parsed.pieces, "White", fen[3], ep),
                                  black |-> FenSide(parsed.pieces, "Black", fen[3], ep)]]

from_fen(fen) == IF fen = STARTPOS THEN from_fen_fields(DEFAULT_FEN) ELSE from_fen_fields(fen)

\* The active colour field, which from_fen parses and leaves unused.
FenActiveColor(fen) == IF fen = STARTPOS \/ fen[2] = <<"w">> THEN "White" ELSE "Black"

\* ------------------------------------------------------------------------
\* game/pieces/pawn.rs
\* ------------------------------------------------------------------------

\* Fault variant of get_pawn_moves_and_attacks: the left-side attacks do not
\* exclude the 'A' file.
get_pawn_moves_and_attacks_wraps(board, color, origin) ==
    LET all_pieces        == board.white.pieces \cup board.black.pieces
        other_side        == get_side(board, Opposite(color))
        capturable_pieces == other_side.pieces \cup other_side.en_passant_target
    IN  IF color = "White"
        THEN (Shl(origin, 8) \cap Not(all_pieces))
             \cup (Shl(origin \cap Not(FILE_H), 9) \cap capturable_pieces)
             \cup (Shl(origin, 7) \cap capturable_pieces)
             \cup Shl(origin \cap RANK_2
                        \cap Shr(Not(all_pieces \cap RANK_3), 8)
                        \cap Shr(Not(all_pieces \cap RANK_4), 16), 16)
        ELSE (Shr(origin, 8) \cap Not(all_pieces))
             \cup (Shr(origin \cap Not(FILE_H), 7) \cap capturable_pieces)
             \cup (Shr(origin, 9) \cap capturable_pieces)
             \cup Shr(origin \cap RANK_7
                        \cap Shl(Not(all_pieces \cap RANK_6), 8)
                        \cap Shl(Not(all_pieces \cap RANK_5), 16), 16)

\* origin is a bitboard of pawns of `color`.  Rust's << and >> bind tighter
\* than &, and the unary ! tighter than both.
get_pawn_moves_and_attacks(board, color, origin) ==
    LET all_pieces        == board.white.pieces \cup board.black.pieces
        other_side        == get_side(board, Opposite(color))
        capturable_pieces == other_side.pieces \cup other_side.en_passant_target
    IN  IF color = "White"
        THEN (Shl(origin, 8) \cap Not(all_pieces))
             \cup (Shl(origin \cap Not(FILE_H), 9) \cap capturable_pieces)
             \cup (Shl(origin \cap Not(FILE_A), 7) \cap capturable_pieces)
             \cup Shl(origin \cap RANK_2
                        \cap Shr(Not(all_pieces \cap RANK_3), 8)
                        \cap Shr(Not(all_pieces \cap RANK_4), 16), 16)
        ELSE (Shr(origin, 8) \cap Not(all_pieces))
             \cup (Shr(origin \cap Not(FILE_H), 7) \cap capturable_pieces)
             \cup (Shr(origin \cap Not(FILE_A), 9) \cap capturable_pieces)
             \cup Shr(origin \cap RANK_7
                        \cap Shl(Not(all_pieces \cap RANK_6), 8)
                        \cap Shl(Not(all_pieces \cap RANK_5), 16), 16)

\* ------------------------------------------------------------------------
\* game/pieces/knight.rs and game/pieces/king.rs
\* ------------------------------------------------------------------------

compile_knight_moves(i) ==
    LET center == {i}
    IN  (Shl(center, 17) \cap Not(FILE_A))
        \cup (Shl(center, 10) \cap Not(FILE_A) \cap Not(FILE_B))
        \cup (Shr(center, 6) \cap Not(FILE_A) \cap Not(FILE_B))
        \cup (Shr(center, 15) \cap Not(FILE_A))
        \cup (Shr(center, 17) \cap Not(FILE_H))
        \cup (Shr(center, 10) \cap Not(FILE_H) \cap Not(FILE_G))
        \cup (Shl(center, 6) \cap Not(FILE_H) \cap Not(FILE_G))
        \cup (Shl(center, 15) \cap Not(FILE_H))

KNIGHT_MOVES == [i \in Squares |-> compile_knight_moves(i)]

compile_king_moves(i) ==
    LET file  == i % 8
        rank  == i \div 8
        files == FILES(file) \cup (IF file # 0 THEN FILES(file - 1) ELSE {})
                             \cup (IF file # 7 THEN FILES(file + 1) ELSE {})
        ranks == RANKS(rank) \cup (IF rank # 0 THEN RANKS(rank - 1) ELSE {})
                             \cup (IF rank # 7 THEN RANKS(rank + 1) ELSE {})
    IN  (files \cap ranks) \ {i}

KING_MOVES == [i \in Squares |-> compile_king_moves(i)]

get_knight_moves(board, color, origin) ==
    KNIGHT_MOVES[origin] \cap Not(get_side(board, color).pieces)

\* Fault variant of get_king_steps: the own pieces are not masked out.
get_king_steps_onto_own_pieces(board, color, origin) == KING_MOVES[origin]

get_king_steps(board, color, origin) ==
    KING_MOVES[origin] \cap Not(get_side(board, color).pieces)

\* ------------------------------------------------------------------------
\* Sliding pieces.  get_sliding_straight_moves and get_sliding_diagonal_moves
\* (called by rook.rs, bishop.rs and queen.rs) are not among the sources;
\* they are modelled from the specification's sliding-ray contract: walk
\* each ray from the slider up to and including the first occupied square,
\* then remove the squares holding own pieces.
\* ------------------------------------------------------------------------

OnBoard(f, r) == f >= 0 /\ f <= 7 /\ r >= 0 /\ r <= 7

RECURSIVE Ray(_, _, _, _, _)
Ray(f, r, df, dr, occupancy) ==
    IF ~OnBoard(f + df, r + dr) THEN {}
    ELSE IF Pos(f + df, r + dr) \in occupancy THEN {Pos(f + df, r + dr)}
    ELSE {Pos(f + df, r + dr)} \cup Ray(f + df, r + dr, df, dr, occupancy)

StraightDirs == {<<0, 1>>, <<0, -1>>, <<1, 0>>, <<-1, 0>>}
DiagonalDirs == {<<1, 1>>, <<-1, -1>>, <<1, -1>>, <<-1, 1>>}

SlidingMoves(board, color, origin, dirs) ==
    UNION {Ray(file_x(s), rank_y(s), d[1], d[2], get_bitboard(board)) :
              s \in origin, d \in dirs}
        \cap Not(get_side(board, color).pieces)

get_sliding_straight_moves(board, color, origin) ==
    SlidingMoves(board, color, origin, StraightDirs)

get_sliding_diagonal_moves(board, color, origin) ==
    SlidingMoves(board, color, origin, DiagonalDirs)

get_rook_sliding_moves(board, color, origin) ==
    get_sliding_straight_moves(board, color, origin)

\* game/pieces/bishop.rs
get_bishop_sliding_moves(board, color, origin) ==
    get_sliding_diagonal_moves(board, color, origin)

\* game/pieces/queen.rs
get_queen_sliding_moves(board, color, origin) ==
    get_sliding_diagonal_moves(board, color, origin)
        \cup get_sliding_straight_moves(board, color, origin)

\* ------------------------------------------------------------------------
\* bitboard.rs: the word arithmetic and the board transforms used by the
\* ray routines of game/pieces/sliding.rs
\* ------------------------------------------------------------------------

\* BitBoard(self.0 ^ other.0)
Xor(a, b) == (a \ b) \cup (b \ a)

\* The u64 written as 16 hexadecimal digits, most significant first.
FromHex(digits) ==
    {4 * (16 - k) + j : k \in 1..16, j \in 0..3} \cap
    {s \in Squares : (digits[16 - (s \div 4)] \div (2 ^ (s % 4))) % 2 = 1}

\* u64::wrapping_sub, bit by bit from bit i upwards with the borrow so far;
\* the borrow out of bit 63 is dropped.
RECURSIVE SubFrom(_, _, _, _)
SubFrom(a, b, i, borrow) ==
    IF i > 63 THEN {}
    ELSE LET d == (IF i \in a THEN 1 ELSE 0) - (IF i \in b THEN 1 ELSE 0) - borrow
         IN  (IF (d + 2) % 2 = 1 THEN {i} ELSE {})
                 \cup SubFrom(a, b, i + 1, IF d < 0 THEN 1 ELSE 0)

wrapping_sub(a, b) == SubFrom(a, b, 0, 0)

\* The constants k1, k2, k4 of mirror_horizontally.
mirror_k ==
    [k1 |-> FromHex(<<5, 5, 5, 5, 5, 5, 5, 5, 5, 5, 5, 5, 5, 5, 5, 5>>),
     k2 |-> FromHex(<<3, 3, 3, 3, 3, 3, 3, 3, 3, 3, 3, 3, 3, 3, 3, 3>>),
     k4 |-> FromHex(<<0, 15, 0, 15, 0, 15, 0, 15, 0, 15, 0, 15, 0, 15, 0, 15>>)]

mirror_horizontally(bb) ==
    LET x1 == (Shr(bb, 1) \cap mirror_k.k1) \cup Shl(bb \cap mirror_k.k1, 1)
        x2 == (Shr(x1, 2) \cap mirror_k.k2) \cup Shl(x1 \cap mirror_k.k2, 2)
    IN  (Shr(x2, 4) \cap mirror_k.k4) \cup Shl(x2 \cap mirror_k.k4, 4)

rotate(bb) == mirror_horizontally(reverse_colors(bb))

\* The constants k1, k2, k4 of flip_diagonally.
diagonal_k ==
    [k1 |-> FromHex(<<5, 5, 0, 0, 5, 5, 0, 0, 5, 5, 0, 0, 5, 5, 0, 0>>),
     k2 |-> FromHex(<<3, 3, 3, 3, 0, 0, 0, 0, 3, 3, 3, 3, 0, 0, 0, 0>>),
     k4 |-> FromHex(<<0, 15, 0, 15, 0, 15, 0, 15, 0, 0, 0, 0, 0, 0, 0, 0>>)]

flip_diagonally(bb) ==
    LET t1 == diagonal_k.k4 \cap Xor(bb, Shl(bb, 28))
        x1 == Xor(bb, Xor(t1, Shr(t1, 28)))
        t2 == diagonal_k.k2 \cap Xor(x1, Shl(x1, 14))
        x2 == Xor(x1, Xor(t2, Shr(t2, 14)))
        t3 == diagonal_k.k1 \cap Xor(x2, Shl(x2, 7))
    IN  Xor(x2, Xor(t3, Shr(t3, 7)))

\* The constants k1, k2, k4 of flip_anti_diagonally.
anti_diagonal_k ==
    [k1 |-> FromHex(<<10, 10, 0, 0, 10, 10, 0, 0, 10, 10, 0, 0, 10, 10, 0, 0>>),
     k2 |-> FromHex(<<12, 12, 12, 12, 0, 0, 0, 0, 12, 12, 12, 12, 0, 0, 0, 0>>),
     k4 |-> FromHex(<<15, 0, 15, 0, 15, 0, 15, 0, 0, 15, 0, 15, 0, 15, 0, 15>>)]

flip_anti_diagonally(bb) ==
    LET t1 == Xor(bb, Shl(bb, 36))
        x1 == Xor(bb, anti_diagonal_k.k4 \cap Xor(t1, Shr(bb, 36)))
        t2 == anti_diagonal_k.k2 \cap Xor(x1, Shl(x1, 18))
        x2 == Xor(x1, Xor(t2, Shr(t2, 18)))
        t3 == anti_diagonal_k.k1 \cap Xor(x2, Shl(x2, 9))
    IN  Xor(x2, Xor(t3, Shr(t3, 9)))

\* Position::flip: the same file on the mirrored rank.
position_flip(pos) == Pos(file_x(pos), 7 - rank_y(pos))

\* ------------------------------------------------------------------------
\* game/pieces/sliding.rs: the ray routines (o ^ (o - 2r)).  Each routine
\* is modelled by the set of destinations of the moves it returns; the
\* order of the moves and the value attached to each are left out.
\* ------------------------------------------------------------------------

\* The main diagonal, from a1 to h8: BitBoard(9241421688590303745),
\* 0x8040201008040201.
MAIN_DIAGONAL == FromHex(<<8, 0, 4, 0, 2, 0, 1, 0, 0, 8, 0, 4, 0, 2, 0, 1>>)

\* Fault variant of positive_ray_attacks: the friendly pieces are not masked
\* out.
positive_ray_attacks_keeps_own(all_pieces, own_pieces, origin_bb, mask) ==
    LET blockers == all_pieces \cap mask
        difference == wrapping_sub(blockers, Shl(origin_bb, 1))
        changed == Xor(difference, all_pieces)
    IN  changed \cap mask

\* The step every routine repeats with its own mask: blockers, difference
\* (wrapping_mul(2) of the one-bit origin board is a shift by one that drops
\* bit 63), changed, attacks.
positive_ray_attacks(all_pieces, own_pieces, origin_bb, mask) ==
    LET blockers == all_pieces \cap mask
        difference == wrapping_sub(blockers, Shl(origin_bb, 1))
        changed == Xor(difference, all_pieces)
    IN  changed \cap mask \cap Not(own_pieces)

get_sliding_vertical_moves(b, color, origin) ==
    LET all_pieces == b.black.pieces \cup b.white.pieces
        own_pieces == get_side(b, color).pieces
        north == positive_ray_attacks(all_pieces, own_pieces, {origin},
                                      FILES(file_x(origin)))
        south == positive_ray_attacks(reverse_colors(all_pieces),
                                      reverse_colors(own_pieces),
                                      reverse_colors({origin}),
                                      FILES(file_x(position_flip(origin))))
    IN  north \cup {position_flip(attack) : attack \in south}

get_sliding_east_moves(b, color, origin) ==
    IF file_x(origin) = 7 THEN {}
    ELSE LET all_pieces == flip_diagonally(b.black.pieces \cup b.white.pieces)
             own_pieces == flip_diagonally(get_side(b, color).pieces)
             origin_bb == flip_diagonally({origin})
             attacks == positive_ray_attacks(all_pieces, own_pieces, origin_bb,
                                             FILES(file_x(to_position(origin_bb))))
         IN  {to_position(flip_diagonally({attack})) : attack \in attacks}

get_sliding_west_moves(b, color, origin) ==
    IF file_x(origin) = 0 THEN {}
    ELSE LET all_pieces == flip_anti_diagonally(b.black.pieces \cup b.white.pieces)
             own_pieces == flip_anti_diagonally(get_side(b, color).pieces)
             origin_bb == flip_anti_diagonally({origin})
             attacks == positive_ray_attacks(all_pieces, own_pieces, origin_bb,
                                             FILES(file_x(to_position(origin_bb))))
         IN  {to_position(flip_anti_diagonally({attack})) : attack \in attacks}

get_sliding_main_diagonal_moves(b, color, origin) ==
    LET all_pieces == b.black.pieces \cup b.white.pieces
        own_pieces == get_side(b, color).pieces
        diagonal_diff == (rank_y(origin) - file_x(origin)) * 8
        diagonal_mask == IF diagonal_diff > 0
                         THEN Shl(MAIN_DIAGONAL, diagonal_diff)
                         ELSE Shr(MAIN_DIAGONAL, -diagonal_diff)
        north_east == IF rank_y(origin) # 7
                      THEN positive_ray_attacks(all_pieces, own_pieces, {origin},
                                                diagonal_mask)
                      ELSE {}
        south_west == IF rank_y(origin) # 0
                      THEN positive_ray_attacks(rotate(all_pieces), rotate(own_pieces),
                                                rotate({origin}), rotate(diagonal_mask))
                      ELSE {}
    IN  north_east \cup {to_position(rotate({attack})) : attack \in south_west}

\* The anti-diagonal routine is not among the sources.  It is modelled from
\* the specification's sliding contract: the same step with the mask of the
\* anti-diagonal through the slider (the squares with the same rank + file)
\* for the north-west ray, and, for the south-east ray, the step on the
\* vertically flipped board, where that ray runs north-east along a
\* diagonal, with the result flipped back.
anti_diagonal_through(sq) ==
    {s \in Squares : rank_y(s) + file_x(s) = rank_y(sq) + file_x(sq)}

diagonal_through(sq) ==
    {s \in Squares : rank_y(s) - file_x(s) = rank_y(sq) - file_x(sq)}

get_sliding_anti_diagonal_moves(b, color, origin) ==
    LET all_pieces == b.black.pieces \cup b.white.pieces
        own_pieces == get_side(b, color).pieces
        north_west == positive_ray_attacks(all_pieces, own_pieces, {origin},
                                           anti_diagonal_through(origin))
        south_east == positive_ray_attacks(reverse_colors(all_pieces),
                                           reverse_colors(own_pieces),
                                           reverse_colors({origin}),
                                           diagonal_through(position_flip(origin)))
    IN  north_west \cup reverse_colors(south_east)

\* ------------------------------------------------------------------------
\* genius.rs: the move generator
\* ------------------------------------------------------------------------

\* Selects the promotion from the destination's rank.
promote(destination) ==
    IF rank_y(destination) = 0 \/ rank_y(destination) = 7 THEN "Queen" ELSE "None"

\* The moves one piece kind contributes: (origin, moves, can_promote)
\* flattened to Move values.
PawnMoves(board, color) ==
    UNION {{Move(pawn, d, promote(d)) :
               d \in get_pawn_moves_and_attacks(board, color, {pawn})} :
           pawn \in get_side(board, color).pawns}

RookMoves(board, color) ==
    UNION {{Move(rook, d, "None") : d \in get_rook_sliding_moves(board, color, {rook})} :
           rook \in get_side(board, color).rooks}

KnightMoves(board, color) ==
    UNION {{Move(knight, d, "None") : d \in get_knight_moves(board, color, knight)} :
           knight \in get_side(board, color).knights}

BishopMoves(board, color) ==
    UNION {{Move(bishop, d, "None") : d \in get_bishop_sliding_moves(board, color, {bishop})} :
           bishop \in get_side(board, color).bishops}

QueenMoves(board, color) ==
    UNION {{Move(queen, d, "None") : d \in get_queen_sliding_moves(board, color, {queen})} :
           queen \in get_side(board, color).queens}

KingMoves(board, color) ==
    UNION {{Move(king, d, "None") : d \in get_king_steps(board, color, king)} :
           king \in get_side(board, color).king}

\* The moves of list_potential_moves, as a set (the estimate and the order
\* of the returned vector are left out).
list_potential_moves(board, color) ==
    PawnMoves(board, color) \cup RookMoves(board, color) \cup KnightMoves(board, color)
        \cup BishopMoves(board, color) \cup QueenMoves(board, color)
        \cup KingMoves(board, color)

\* ------------------------------------------------------------------------
\* game/mod.rs: Board::apply_move
\* ------------------------------------------------------------------------

\* Fault variant of piece_taken: the en passant detection is left out.
piece_taken_on_destination(board, m) == get_piece(board, m[2])

\* piece_taken: the piece on the destination, replaced (for a pawn move) by
\* the piece on the opponent's en passant target when that target is the
\* square behind the destination.
piece_taken(board, m) ==
    LET piece_moved == get_piece(board, m[1])
        color       == piece_moved.color
        opponent    == get_side(board, Opposite(color))
    IN  IF /\ piece_moved.kind = "Pawn"
           /\ popcnt(opponent.en_passant_target) = 1
           /\ to_position(opponent.en_passant_target) = backwards(m[2], color, 1)
        THEN get_piece(board, to_position(opponent.en_passant_target))
        ELSE get_piece(board, m[2])

\* The mover's side after the match on piece_moved (each arm is a
\* side.mutate, so the side is refreshed).
moved_side(board, m) ==
    LET piece_moved == get_piece(board, m[1])
        side        == get_side(board, piece_moved.color)
        origin      == m[1]
        destination == m[2]
        promotion   == m[3]
        rook_move   == get_castling_rook_move(m)
    IN  refresh(
        CASE piece_moved.kind = "Pawn" ->
               [side EXCEPT
                  !.pawns = IF promotion = "None"
                            THEN (side.pawns \ {origin}) \cup {destination}
                            ELSE side.pawns \ {origin},
                  !.queens = IF promotion = "Queen" THEN @ \cup {destination} ELSE @,
                  !.rooks = IF promotion = "Rook" THEN @ \cup {destination} ELSE @,
                  !.bishops = IF promotion = "Bishop" THEN @ \cup {destination} ELSE @,
                  !.knights = IF promotion = "Knight" THEN @ \cup {destination} ELSE @,
                  !.en_passant_target = IF is_pawn_two_step(m)
                                        THEN @ \cup {destination} ELSE @]
          [] piece_moved.kind = "Rook" ->
               [side EXCEPT !.rooks = (@ \ {origin}) \cup {destination},
                            !.unmoved_rooks = @ \ {origin}]
          [] piece_moved.kind = "Knight" ->
               [side EXCEPT !.knights = (@ \ {origin}) \cup {destination}]
          [] piece_moved.kind = "Bishop" ->
               [side EXCEPT !.bishops = (@ \ {origin}) \cup {destination}]
          [] piece_moved.kind = "Queen" ->
               [side EXCEPT !.queens = (@ \ {origin}) \cup {destination}]
          [] piece_moved.kind = "King" ->
               [side EXCEPT
                  !.king = (@ \ {origin}) \cup {destination},
                  !.king_has_moved = TRUE,
                  !.rooks = IF rook_move # NoMove
                            THEN (@ \ {rook_move[1]}) \cup {rook_move[2]} ELSE @,
                  !.unmoved_rooks = IF rook_move # NoMove THEN @ \ {rook_move[1]} ELSE @])

\* Fault variant of cleared_opponent: the knight arm does not clear the
\* target.
cleared_opponent_knight_arm_forgets(opponent, kind) ==
    IF kind = "Knight" THEN opponent
    ELSE [opponent EXCEPT !.en_passant_target = EMPTY]

\* The opponent's side after the match on piece_moved: every arm clears
\* its en passant target.
cleared_opponent(opponent, kind) ==
    CASE kind = "Pawn"   -> [opponent EXCEPT !.en_passant_target = EMPTY]
      [] kind = "Rook"   -> [opponent EXCEPT !.en_passant_target = EMPTY]
      [] kind = "Knight" -> [opponent EXCEPT !.en_passant_target = EMPTY]
      [] kind = "Bishop" -> [opponent EXCEPT !.en_passant_target = EMPTY]
      [] kind = "Queen"  -> [opponent EXCEPT !.en_passant_target = EMPTY]
      [] kind = "King"   -> [opponent EXCEPT !.en_passant_target = EMPTY]

\* Fault variant of remove_taken: the taken piece stays on its bitboard.
remove_taken_keeps_piece(opponent, taken) == refresh(opponent)

\* The taken piece is removed from the opponent's bitboard of its kind
\* (an opponent.mutate, so the opponent is refreshed).
remove_taken(opponent, taken) ==
    refresh(
        CASE taken.kind = "Pawn"   -> [opponent EXCEPT !.pawns = @ \ {taken.pos}]
          [] taken.kind = "Rook"   -> [opponent EXCEPT !.rooks = @ \ {taken.pos}]
          [] taken.kind = "Knight" -> [opponent EXCEPT !.knights = @ \ {taken.pos}]
          [] taken.kind = "Bishop" -> [opponent EXCEPT !.bishops = @ \ {taken.pos}]
          [] taken.kind = "Queen"  -> [opponent EXCEPT !.queens = @ \ {taken.pos}]
          [] taken.kind = "King"   -> [opponent EXCEPT !.king = @ \ {taken.pos}])

\* The opponent's side after apply_move.
taken_side(board, m) ==
    LET piece_moved == get_piece(board, m[1])
        opponent    == cleared_opponent(get_side(board, Opposite(piece_moved.color)),
                                        piece_moved.kind)
        taken       == piece_taken(board, m)
    IN  IF taken = NoPiece THEN opponent ELSE remove_taken(opponent, taken)

\* The inputs on which apply_move panics: nothing on the origin, a castling
\* king move without the unmoved rook on its corner (the two assert_eq!),
\* a taken piece of the mover's colour, and (debug builds) the u8 overflow
\* of destination.backwards for a pawn arriving on rank 1.
apply_move_panics(board, m) ==
    LET piece_moved == get_piece(board, m[1])
        side        == get_side(board, piece_moved.color)
        opponent    == get_side(board, Opposite(piece_moved.color))
        rook_move   == get_castling_rook_move(m)
    IN  \/ piece_moved = NoPiece
        \/ /\ piece_moved.kind = "King"
           /\ rook_move # NoMove
           /\ (rook_move[1] \notin side.rooks \/ rook_move[1] \notin side.unmoved_rooks)
        \/ /\ piece_moved.kind = "Pawn"
           /\ popcnt(opponent.en_passant_target) = 1
           /\ forwards_overflows(m[2], Opposite(piece_moved.color), 1)
        \/ /\ piece_taken(board, m) # NoPiece
           /\ piece_taken(board, m).color = piece_moved.color

\* The board after apply_move(m), for an input on which it does not panic.
apply_move(board, m) ==
    LET color == get_piece(board, m[1]).color
    IN  IF color = "White"
        THEN [white |-> moved_side(board, m), black |-> taken_side(board, m)]
        ELSE [black |-> moved_side(board, m), white |-> taken_side(board, m)]

\* ------------------------------------------------------------------------
\* genius.rs: the search (negamax, Node, Evaluation)
\* ------------------------------------------------------------------------

\* enum Evaluation { Worst, Score(i32), Best }: the pair of the variant's
\* position and its payload, ordered as the derived Ord orders them.
Worst == <<0, 0>>
Score(s) == <<1, s>>
Best == <<2, 0>>

EvalLess(a, b) == a[1] < b[1] \/ (a[1] = b[1] /\ a[2] < b[2])

\* impl Neg for Evaluation
EvalNeg(e) == IF e = Worst THEN Best ELSE IF e = Best THEN Worst ELSE Score(-e[2])

\* std::cmp::max: the second argument unless the first is greater.
EvalMax(a, b) == IF EvalLess(b, a) THEN a ELSE b

\* Board::piecewise_score is not among the sources; it is modelled from the
\* specification's leaf score: material of the side minus material of the
\* other side, with pawn 1, knight 3, bishop 3, rook 5, queen 8, king 100.
material(side) ==
    popcnt(side.pawns) + 3 * popcnt(side.knights) + 3 * popcnt(side.bishops)
        + 5 * popcnt(side.rooks) + 8 * popcnt(side.queens) + 100 * popcnt(side.king)

piecewise_score(b, color) ==
    material(get_side(b, color)) - material(get_side(b, Opposite(color)))

evaluate(color, b) == Score(piecewise_score(b, color))

\* impl Default for Node: Worst and the move from Position::default() to
\* Position::default(), the square a1.
NodeDefault == [eval |-> Worst, m |-> Move(0, 0, "None"), panicked |-> FALSE]

\* The outcome of a search that panicked.
NodePanic == [eval |-> Worst, m |-> NoMove, panicked |-> TRUE]

\* impl Neg for Node
NodeNeg(node) == [node EXCEPT !.eval = EvalNeg(node.eval)]

\* Fault variant of NodeMax: on equal evaluations the first argument is kept.
NodeMax_keeps_first_when_equal(a, b) == IF EvalLess(a.eval, b.eval) THEN b ELSE a

\* std::cmp::max on Node, whose Ord compares eval only: the second argument
\* unless the first is greater.
NodeMax(a, b) == IF EvalLess(b.eval, a.eval) THEN a ELSE b

\* The place of move m in list_potential_moves' result.  The moves are
\* generated task by task (pawn, rook, knight, bishop, queen, king), origins
\* and destinations in ascending order, given the estimate 0.5 (pawn) or 0,
\* stably sorted by estimate and reversed: the result runs down this rank.
MoveRank(b, m) ==
    LET kind == get_piece(b, m[1]).kind
        task == CASE kind = "Pawn" -> 0 [] kind = "Rook" -> 1 [] kind = "Knight" -> 2
                  [] kind = "Bishop" -> 3 [] kind = "Queen" -> 4 [] OTHER -> 5
    IN  (IF kind = "Pawn" THEN 32768 ELSE 0) + task * 4096 + m[1] * 64 + m[2]

RECURSIVE SortedDown(_, _)
SortedDown(S, rank) ==
    IF S = {} THEN <<>>
    ELSE LET top == CHOOSE x \in S : \A y \in S : rank[x] >= rank[y]
         IN  <<top>> \o SortedDown(S \ {top}, rank)

\* list_potential_moves as the Vec it returns.
list_potential_moves_in_order(b, color) ==
    LET moves == list_potential_moves(b, color)
    IN  SortedDown(moves, [m \in moves |-> MoveRank(b, m)])

\* Fault variant of ChildWindow: the bounds are negated but not exchanged.
ChildWindow_not_exchanged(alpha, beta) ==
    [alpha |-> EvalNeg(alpha), beta |-> EvalNeg(beta)]

\* The window negamax passes to the search of a child: -beta, -alpha.
ChildWindow(alpha, beta) == [alpha |-> EvalNeg(beta), beta |-> EvalNeg(alpha)]

\* negamax.  The result is a Node, or NodePanic where the code panics: on
\* previous_moves[0] when the leaf is the root itself, or inside apply_move.
\* negamax_from is the loop over moves from its i-th move on, value, alpha
\* being the loop's variables.
RECURSIVE negamax(_, _, _, _, _, _, _)
RECURSIVE negamax_from(_, _, _, _, _, _, _, _, _, _)
negamax(genius_color, b, depth, alpha, beta, color, previous_moves) ==
    LET moves == list_potential_moves_in_order(b, color)
    IN  IF depth = 0 \/ moves = <<>>
        THEN IF previous_moves = <<>> THEN NodePanic
             ELSE [eval |-> IF moves = <<>> /\ color = genius_color THEN Worst
                            ELSE IF moves = <<>> /\ color # genius_color THEN Best
                            ELSE evaluate(genius_color, b),
                   m |-> previous_moves[1],
                   panicked |-> FALSE]
        ELSE negamax_from(genius_color, b, depth, alpha, beta, color, previous_moves,
                          moves, 1, NodeDefault)

negamax_from(genius_color, b, depth, alpha, beta, color, previous_moves, moves, i, value) ==
    IF i > Len(moves) THEN value
    ELSE IF apply_move_panics(b, moves[i]) THEN NodePanic
    ELSE LET window == ChildWindow(alpha, beta)
             child == negamax(genius_color, apply_move(b, moves[i]), depth - 1,
                              window.alpha, window.beta, Opposite(color),
                              Append(previous_moves, moves[i]))
             new_value == NodeMax(value, NodeNeg(child))
             new_alpha == EvalMax(alpha, new_value.eval)
         IN  IF child.panicked THEN NodePanic
             ELSE IF ~EvalLess(new_alpha, beta) THEN new_value
             ELSE negamax_from(genius_color, b, depth, new_alpha, beta, color,
                               previous_moves, moves, i + 1, new_value)

\* Brain::choose_move, the closure run on the worker pool: the root search.
\* The depth is the code's 4 cut down to SearchDepth.
root_search(b, brain_color) ==
    negamax(brain_color, b, SearchDepth, Worst, Best, brain_color, <<>>)

\* ------------------------------------------------------------------------
\* The chess service.  The moves a per-game task receives come from the
\* service, which only relays legal moves of chess; its rules are not part
\* of the sources and are modelled from the specification's rules of play.
\* ------------------------------------------------------------------------

Direction(color) == IF color = "White" THEN 1 ELSE -1

\* Whether a piece of colour `by` attacks square sq.
Attacked(board, sq, by) ==
    LET side == get_side(board, by)
        occ  == get_bitboard(board)
        df(s) == Abs(file_x(sq) - file_x(s))
        dr(s) == Abs(rank_y(sq) - rank_y(s))
    IN  \/ \E p \in side.pawns :
              rank_y(sq) = rank_y(p) + Direction(by) /\ df(p) = 1
        \/ \E n \in side.knights : {df(n), dr(n)} = {1, 2}
        \/ \E k \in side.king : k # sq /\ df(k) <= 1 /\ dr(k) <= 1
        \/ \E s \in side.rooks \cup side.queens : \E d \in StraightDirs :
              sq \in Ray(file_x(s), rank_y(s), d[1], d[2], occ)
        \/ \E s \in side.bishops \cup side.queens : \E d \in DiagonalDirs :
              sq \in Ray(file_x(s), rank_y(s), d[1], d[2], occ)

\* Whether the king of `color` stands on an attacked square.
InCheck(board, color) ==
    \E k \in get_side(board, color).king : Attacked(board, k, Opposite(color))

\* The four promotions on the last rank, no promotion elsewhere.
PromotionChoices(destination) ==
    IF rank_y(destination) = 0 \/ rank_y(destination) = 7
    THEN {"Queen", "Rook", "Bishop", "Knight"} ELSE {"None"}

\* Pawn moves of chess.  passed is the set holding the square an opposing
\* pawn skipped on the preceding half-move (empty when there is none).
ChessPawnMoves(board, color, passed) ==
    LET side  == get_side(board, color)
        other == get_side(board, Opposite(color))
        occ   == get_bitboard(board)
        dir   == Direction(color)
        start == IF color = "White" THEN 1 ELSE 6
        dests(p) ==
            {t \in Squares :
                \/ /\ file_x(t) = file_x(p) /\ rank_y(t) = rank_y(p) + dir
                   /\ t \notin occ
                \/ /\ file_x(t) = file_x(p) /\ rank_y(t) = rank_y(p) + 2 * dir
                   /\ rank_y(p) = start
                   /\ t \notin occ /\ Pos(file_x(p), rank_y(p) + dir) \notin occ
                \/ /\ Abs(file_x(t) - file_x(p)) = 1 /\ rank_y(t) = rank_y(p) + dir
                   /\ t \in other.pieces \cup passed}
    IN  UNION {UNION {{Move(p, t, pr) : pr \in PromotionChoices(t)} : t \in dests(p)} :
                  p \in side.pawns}

\* Moves of the other pieces: knight and king steps, and slides along rays
\* up to the first occupied square, never onto an own piece.
ChessPieceMoves(board, color) ==
    LET side == get_side(board, color)
        occ  == get_bitboard(board)
        df(s, t) == Abs(file_x(t) - file_x(s))
        dr(s, t) == Abs(rank_y(t) - rank_y(s))
        rays(s, dirs) == UNION {Ray(file_x(s), rank_y(s), d[1], d[2], occ) : d \in dirs}
        dests(s) ==
            IF s \in side.knights THEN {t \in Squares : {df(s, t), dr(s, t)} = {1, 2}}
            ELSE IF s \in side.king
            THEN {t \in Squares : t # s /\ df(s, t) <= 1 /\ dr(s, t) <= 1}
            ELSE IF s \in side.rooks THEN rays(s, StraightDirs)
            ELSE IF s \in side.bishops THEN rays(s, DiagonalDirs)
            ELSE IF s \in side.queens THEN rays(s, StraightDirs \cup DiagonalDirs)
            ELSE {}
    IN  UNION {{Move(s, t, "None") : t \in dests(s) \ side.pieces} :
                  s \in side.pieces \ side.pawns}

\* Castling: king and rook unmoved, the squares between them empty, and the
\* king neither in check nor crossing or reaching an attacked square.
ChessCastlingMoves(board, color) ==
    LET side  == get_side(board, color)
        occ   == get_bitboard(board)
        other == Opposite(color)
        e     == IF color = "White" THEN SqE1 ELSE SqE8
        can(rook, between, path) ==
            /\ side.king = {e} /\ ~side.king_has_moved
            /\ rook \in side.rooks /\ rook \in side.unmoved_rooks
            /\ between \cap occ = {}
            /\ \A s \in path \cup {e} : ~Attacked(board, s, other)
    IN  (IF can(e + 3, {e + 1, e + 2}, {e + 1, e + 2})
         THEN {Move(e, e + 2, "None")} ELSE {})
        \cup (IF can(e - 4, {e - 1, e - 2, e - 3}, {e - 1, e - 2})
              THEN {Move(e, e - 2, "None")} ELSE {})

\* The legal moves of `color`: the moves above that do not leave the
\* mover's own king attacked.
ServiceMoves(board, color, passed) ==
    {m \in ChessPawnMoves(board, color, passed) \cup ChessPieceMoves(board, color)
             \cup ChessCastlingMoves(board, color) :
        /\ ~apply_move_panics(board, m)
        /\ ~InCheck(apply_move(board, m), color)}
\* ------------------------------------------------------------------------
\* Starting positions: the FEN of a SetBoard message, already split at
\* whitespace into its six fields.
\* ------------------------------------------------------------------------

\* r3k3/p7/8/8/8/8/7P/4K2R w Kq - 0 1
\* (White may castle kingside, Black queenside)
FEN_CASTLE_KINGSIDE_QUEENSIDE ==
    << <<"r","3","k","3","/","p","7","/","8","/","8","/","8","/","8","/","7","P","/","4","K","2","R">>,
       <<"w">>, <<"K","q">>, <<"-">>, <<"0">>, <<"1">> >>

\* 4k2r/7p/8/8/8/8/P7/R3K3 w Qk - 0 1
\* (White may castle queenside, Black kingside)
FEN_CASTLE_QUEENSIDE_KINGSIDE ==
    << <<"4","k","2","r","/","7","p","/","8","/","8","/","8","/","8","/","P","7","/","R","3","K","3">>,
       <<"w">>, <<"Q","k">>, <<"-">>, <<"0">>, <<"1">> >>

\* 4k3/8/8/2pP4/8/8/8/4K3 w - c6 0 1
\* (the c- and d-pawns of pawn.rs test_get_pawn_moves_and_attacks_white)
FEN_EN_PASSANT_WHITE ==
    << <<"4","k","3","/","8","/","8","/","2","p","P","4","/","8","/","8","/","8","/","4","K","3">>,
       <<"w">>, <<"-">>, <<"c","6">>, <<"0">>, <<"1">> >>

\* 4k3/8/8/8/5Pp1/8/8/4K3 b - f3 0 1
\* (the f- and g-pawns of pawn.rs test_get_pawn_moves_and_attacks_black)
FEN_EN_PASSANT_BLACK ==
    << <<"4","k","3","/","8","/","8","/","8","/","5","P","p","1","/","8","/","8","/","4","K","3">>,
       <<"b">>, <<"-">>, <<"f","3">>, <<"0">>, <<"1">> >>

\* 4k3/P7/8/8/8/8/1p6/R3K3 w Q - 0 1
\* (a pawn of each colour one step from promotion)
FEN_PROMOTION ==
    << <<"4","k","3","/","P","7","/","8","/","8","/","8","/","8","/","1","p","6","/","R","3","K","3">>,
       <<"w">>, <<"Q">>, <<"-">>, <<"0">>, <<"1">> >>

\* 4k3/8/8/b7/8/2N5/8/4K3 w - - 0 1
\* (the white knight is pinned to its king by the bishop)
FEN_PIN ==
    << <<"4","k","3","/","8","/","8","/","b","7","/","8","/","2","N","5","/","8","/","4","K","3">>,
       <<"w">>, <<"-">>, <<"-">>, <<"0">>, <<"1">> >>

\* 4k3/8/8/8/3p4/8/4P3/4K3 w - - 0 1
\* (a white double step next to a black pawn)
FEN_DOUBLE_STEP_WHITE ==
    << <<"4","k","3","/","8","/","8","/","8","/","3","p","4","/","8","/","4","P","3","/","4","K","3">>,
       <<"w">>, <<"-">>, <<"-">>, <<"0">>, <<"1">> >>

\* 4k3/3p4/8/4P3/8/8/8/4K3 b - - 0 1
\* (a black double step next to a white pawn)
FEN_DOUBLE_STEP_BLACK ==
    << <<"4","k","3","/","3","p","4","/","8","/","4","P","3","/","8","/","8","/","8","/","4","K","3">>,
       <<"b">>, <<"-">>, <<"-">>, <<"0">>, <<"1">> >>

StartFens ==
    {STARTPOS, FEN_CASTLE_KINGSIDE_QUEENSIDE,
     FEN_CASTLE_QUEENSIDE_KINGSIDE,
     FEN_EN_PASSANT_WHITE,
     FEN_EN_PASSANT_BLACK,
     FEN_PROMOTION,
     FEN_PIN,
     FEN_DOUBLE_STEP_WHITE,
     FEN_DOUBLE_STEP_BLACK}

\* ------------------------------------------------------------------------
\* The state machine.  A per-game task (poirebot-lichess bot.rs) builds its
\* board from the FEN of SetBoard and applies to it every move the service
\* relays, parsed from pure coordinate notation.  The search (genius.rs
\* negamax) starts from the task's board and applies generated moves, the
\* sides alternating.
\* ------------------------------------------------------------------------

VARIABLES
    fen,      \* the FEN the board was built from
    board,    \* the Board
    prev,     \* the Board before the last apply_move
    hist,     \* the moves applied so far, oldest first
    turn,     \* the side to move
    phase,    \* "game": moves come from the service; "search": from the
              \* generator; "panic": an apply_move panicked
    notation, \* a Move on its way through to_pure_notation and
              \* from_pure_notation (used by SpecNotation only)
    call,     \* one call of a pure routine: its input and, once the routine
              \* has run, its result (used by the single-routine
              \* specifications only)
    task      \* the per-game task of poirebot-lichess, its channel and the
              \* commands it issued (used by SpecBot only)

vars == <<fen, board, prev, hist, turn, phase, notation, call, task>>

\* The call variable while no routine is being called.
NoCall == [fn |-> "none"]

\* The task variable outside SpecBot.
NoTask == [pc |-> "none"]

\* The notation variable while no move is being converted.
NoNotation == [stage |-> "none", m |-> NoMove, text |-> <<>>, parsed |-> NoMove]

FenFields(f) == IF f = STARTPOS THEN DEFAULT_FEN ELSE f

\* The last applied move, as recorded in hist.
Last == hist[Len(hist)]

\* What hist records of an applied move m: the move as the service sent it
\* (NoMove for a generated move), the mover and the kind of piece moved.
Applied(b, m, sent) ==
    [m |-> m, sent |-> sent,
     color |-> get_piece(b, m[1]).color, kind |-> get_piece(b, m[1]).kind]

IsDoubleStep(h) == h.kind = "Pawn" /\ is_pawn_two_step(h.m)

\* The square skipped by the pawn that double-stepped on half-move n (the
\* last of the first n applied moves): for n = 0, the square the FEN's en
\* passant field names.
PassedAfter(n) ==
    IF n = 0
    THEN (IF FenFields(fen)[4] = <<"-">> THEN {} ELSE {from_notation(FenFields(fen)[4])})
    ELSE IF IsDoubleStep(hist[n])
    THEN {Pos(file_x(hist[n].m[2]), (rank_y(hist[n].m[1]) + rank_y(hist[n].m[2])) \div 2)}
    ELSE {}

Passed == PassedAfter(Len(hist))

\* The task's board still shows the position of the game: no promotion was
\* lost on the way.
InSync == (board.white.pawns \cup board.black.pawns) \cap (RANK_1 \cup RANK_8) = {}

Init ==
    /\ fen \in StartFens
    /\ from_fen(fen).status = "ok"
    /\ board = from_fen(fen).board
    /\ prev = board
    /\ hist = <<>>
    /\ turn = FenActiveColor(fen)
    /\ phase = "game"
    /\ notation = NoNotation
    /\ call = NoCall
    /\ task = NoTask

\* One apply_move(m), or the panic it ends in.
Step(m, sent, next_phase) ==
    IF apply_move_panics(board, m)
    THEN /\ phase' = "panic"
         /\ UNCHANGED <<fen, board, prev, hist, turn, notation, task>>
    ELSE /\ board' = apply_move(board, m)
         /\ prev' = board
         /\ hist' = Append(hist, Applied(board, m, sent))
         /\ turn' = Opposite(turn)
         /\ phase' = next_phase
         /\ UNCHANGED <<fen, notation, task>>

\* bot.rs dispatch_board_event and message_loop: a move of the game arrives
\* in pure coordinate notation, is parsed and applied to the board.
ExternalMove ==
    /\ phase = "game"
    /\ Len(hist) < MaxPlies
    /\ InSync
    /\ \E sent \in ServiceMoves(board, turn, Passed) :
          Step(from_pure_notation(to_pure_notation(sent)), sent, "game")
    /\ UNCHANGED call

\* genius.rs negamax: one expansion of the search, applying a move of
\* list_potential_moves for the side to move.
EngineMove ==
    /\ phase \in {"game", "search"}
    /\ Len(hist) < MaxPlies
    /\ \E m \in list_potential_moves(board, turn) :
          Step(m, NoMove, "search")
    /\ UNCHANGED call

Next == ExternalMove \/ EngineMove

Spec == Init /\ [][Next]_vars

\* ------------------------------------------------------------------------
\* The notation round trip on its own: any Move is written by
\* to_pure_notation and the text read back by from_pure_notation.
\* ------------------------------------------------------------------------

InitNotation ==
    /\ fen = STARTPOS
    /\ board = DefaultBoard
    /\ prev = board
    /\ hist = <<>>
    /\ turn = "White"
    /\ phase = "notation"
    /\ call = NoCall
    /\ task = NoTask
    /\ \E origin \in Squares, destination \in Squares, promotion \in Promotions :
          notation = [stage |-> "move", m |-> Move(origin, destination, promotion),
                      text |-> <<>>, parsed |-> NoMove]

Format ==
    /\ notation.stage = "move"
    /\ notation' = [notation EXCEPT !.stage = "text", !.text = to_pure_notation(notation.m)]
    /\ UNCHANGED <<fen, board, prev, hist, turn, phase, call, task>>

Parse ==
    /\ notation.stage = "text"
    /\ notation' = [notation EXCEPT !.stage = "parsed",
                                    !.parsed = from_pure_notation(notation.text)]
    /\ UNCHANGED <<fen, board, prev, hist, turn, phase, call, task>>

NextNotation == Format \/ Parse

SpecNotation == InitNotation /\ [][NextNotation]_vars

\* ------------------------------------------------------------------------
\* The ray routines on their own: one sliding piece of either colour on any
\* square and other pieces around it, each a friend or a foe; one routine of
\* sliding.rs is then called for the slider.
\* ------------------------------------------------------------------------

\* The subsets of S with at most n elements.
RECURSIVE SubsetsUpTo(_, _)
SubsetsUpTo(S, n) ==
    IF n = 0 THEN {{}}
    ELSE LET smaller == SubsetsUpTo(S, n - 1)
         IN  smaller \cup {p \cup {x} : p \in smaller, x \in S}

\* Where the other pieces stand: one piece a knight's step away from the
\* slider (off every line through it), or up to MaxBlockers pieces on one of
\* the four lines through it.
Placements(origin) ==
    {{x} : x \in KNIGHT_MOVES[origin]}
        \cup SubsetsUpTo(FILES(file_x(origin)) \ {origin}, MaxBlockers)
        \cup SubsetsUpTo(RANKS(rank_y(origin)) \ {origin}, MaxBlockers)
        \cup SubsetsUpTo(diagonal_through(origin) \ {origin}, MaxBlockers)
        \cup SubsetsUpTo(anti_diagonal_through(origin) \ {origin}, MaxBlockers)

SliderBoard(color, origin, friends, foes) ==
    LET own == refresh([EmptySide(color) EXCEPT !.queens = {origin}, !.knights = friends])
        other == refresh([EmptySide(Opposite(color)) EXCEPT !.knights = foes])
    IN  IF color = "White" THEN [white |-> own, black |-> other]
        ELSE [white |-> other, black |-> own]

InitSliding ==
    /\ fen = STARTPOS
    /\ \E color \in Colors, origin \in Squares :
         \E placed \in Placements(origin) :
           \E friends \in SUBSET placed :
              /\ board = SliderBoard(color, origin, friends, placed \ friends)
              /\ turn = color
              /\ call = [fn |-> "slider", origin |-> origin, moves |-> {}]
    /\ prev = board
    /\ hist = <<>>
    /\ phase = "sliding"
    /\ notation = NoNotation
    /\ task = NoTask

\* The call of one routine for the slider; moves holds the destinations.
Slide(fn, moves) ==
    /\ call.fn = "slider"
    /\ call' = [call EXCEPT !.fn = fn, !.moves = moves]
    /\ UNCHANGED <<fen, board, prev, hist, turn, phase, notation, task>>

SlideVertical ==
    Slide("get_sliding_vertical_moves",
          get_sliding_vertical_moves(board, turn, call.origin))

SlideEast ==
    Slide("get_sliding_east_moves", get_sliding_east_moves(board, turn, call.origin))

SlideWest ==
    Slide("get_sliding_west_moves", get_sliding_west_moves(board, turn, call.origin))

SlideMainDiagonal ==
    Slide("get_sliding_main_diagonal_moves",
          get_sliding_main_diagonal_moves(board, turn, call.origin))

SlideAntiDiagonal ==
    Slide("get_sliding_anti_diagonal_moves",
          get_sliding_anti_diagonal_moves(board, turn, call.origin))

NextSliding ==
    SlideVertical \/ SlideEast \/ SlideWest \/ SlideMainDiagonal \/ SlideAntiDiagonal

SpecSliding == InitSliding /\ [][NextSliding]_vars

\* ------------------------------------------------------------------------
\* The root search on its own: from a small position the service relays
\* moves, and the engine, playing the side to move, runs its root search
\* (Brain::choose_move) and plays the move it chose once the service has
\* relayed it back.
\* ------------------------------------------------------------------------

\* 7k/8/8/8/8/8/7r/K6r w - - 0 1
\* (wherever the white king steps, a rook takes it)
FEN_KING_HUNTED ==
    << <<"7", "k", "/", "8", "/", "8", "/", "8", "/", "8", "/", "8", "/",
         "7", "r", "/", "K", "6", "r">>,
       <<"w">>, <<"-">>, <<"-">>, <<"0">>, <<"1">> >>

SearchFens ==
    {FEN_KING_HUNTED, FEN_EN_PASSANT_WHITE, FEN_EN_PASSANT_BLACK,
     FEN_DOUBLE_STEP_WHITE, FEN_DOUBLE_STEP_BLACK}

InitSearch ==
    /\ fen \in SearchFens
    /\ from_fen(fen).status = "ok"
    /\ board = from_fen(fen).board
    /\ prev = board
    /\ hist = <<>>
    /\ turn = FenActiveColor(fen)
    /\ phase = "game"
    /\ notation = NoNotation
    /\ call = NoCall
    /\ task = NoTask

\* Brain::choose_move for the side to move: the worker's root search.
ChooseMove ==
    /\ phase = "game"
    /\ call' = [fn |-> "choose_move", best |-> root_search(board, turn)]
    /\ phase' = "chosen"
    /\ UNCHANGED <<fen, board, prev, hist, turn, notation, task>>

\* The chosen move went to the service in pure coordinate notation and
\* comes back as a move of the game: Brain::own_move applies it.
OwnMove ==
    /\ phase = "chosen"
    /\ ~call.best.panicked
    /\ Len(hist) < MaxPlies
    /\ call.best.m \in ServiceMoves(board, turn, Passed)
    /\ Step(from_pure_notation(to_pure_notation(call.best.m)), call.best.m, "game")
    /\ call' = NoCall

NextSearch == ExternalMove \/ ChooseMove \/ OwnMove

SpecSearch == InitSearch /\ [][NextSearch]_vars

\* ------------------------------------------------------------------------
\* poirebot-lichess bot.rs: one per-game task (message_loop) with its
\* channel, the senders that feed it, the worker that runs its search and
\* the commands it issues to the service.
\*
\* task.pc is the task's position: "recv" (suspended on its channel),
\* "search" (suspended in find_and_send_move on the one-shot reply) or
\* "exited".  board is the board of the task's Brain, turn the side to move
\* in the game.  A message is a record with its kind and its payload.
\* ------------------------------------------------------------------------

\* 4k3/8/8/8/8/p7/P7/8 w - - 0 1
\* (White has no move: its only piece is a blocked pawn)
FEN_NO_WHITE_MOVE ==
    << <<"4", "k", "3", "/", "8", "/", "8", "/", "8", "/", "8", "/",
         "p", "7", "/", "P", "7", "/", "8">>,
       <<"w">>, <<"-">>, <<"-">>, <<"0">>, <<"1">> >>

\* 7k/8/8/8/8/8/8/K7 w - - 0 1
FEN_BARE_KINGS ==
    << <<"7", "k", "/", "8", "/", "8", "/", "8", "/", "8", "/", "8", "/",
         "8", "/", "K", "7">>,
       <<"w">>, <<"-">>, <<"-">>, <<"0">>, <<"1">> >>

BotFens == {FEN_BARE_KINGS, FEN_NO_WHITE_MOVE}

\* The texts of chat lines.
ChatTexts == {<<".", "v", "e", "r", "s", "i", "o", "n">>, <<"h", "i">>}

\* Fault variant of channel_send: a message is queued behind a dropped
\* receiver too.
channel_send_after_close(t, message) ==
    [t EXCEPT !.queue = Append(t.queue, message)]

\* UnboundedSender::send: the message joins the queue, or, the receiver
\* being dropped, the send returns an Err that every caller ignores.
channel_send(t, message) ==
    IF t.pc = "exited" THEN [t EXCEPT !.dropped = t.dropped + 1]
    ELSE [t EXCEPT !.queue = Append(t.queue, message)]

\* A command to the service, as the task's record of it: whether the call
\* succeeded and whether Abort had been sent during the search that led to
\* it.
Command(t, cmd, ok) == [cmd |-> cmd, ok |-> ok, after_abort |-> t.abort_in_search]

\* The reason accept_or_decline_challenge gives when it declines.
DECLINE_REASON == "Sorry, I cannot play under these conditions."

\* The decline command: challenge_decline with its reason.
DeclineCommand(t, ok) ==
    [cmd |-> "decline", ok |-> ok, after_abort |-> t.abort_in_search,
     reason |-> DECLINE_REASON]

\* is_following(..).await.unwrap_or(false): a failed lookup counts as not
\* following.
is_following(t) == IF t.lookup_ok THEN t.follows ELSE FALSE

\* Fault variant of accept: no_accept is not consulted.
accept_ignores_no_accept(config, following) ==
    IF config.following_only /\ ~following THEN FALSE ELSE TRUE

\* accept_or_decline_challenge: the decision.
accept(config, following) ==
    IF config.no_accept THEN FALSE
    ELSE IF config.following_only /\ ~following THEN FALSE
    ELSE TRUE

\* Fault variant of is_repeated: no move is taken for a repetition.
is_repeated_never(t, message) == FALSE

\* message_loop, Move: whether the move equals the last recorded move of
\* its side (brain.last_move for the bot's colour, brain.opponent_last_move
\* for the other).
is_repeated(t, message) ==
    IF message.color = t.color THEN t.last_move = message.m
    ELSE t.opponent_last_move = message.m

\* message_loop, SetBoard: whether the bot is to move after `moves`.
bots_turn(own_color, moves) ==
    IF own_color = "Black" THEN Len(moves) % 2 = 1 ELSE Len(moves) % 2 = 0

\* Fault variant of Exit: the loop is not left.
Exit_without_break(t, why) == [t EXCEPT !.exit_by = why]

\* The task after `break` or a panic inside message_loop: the loop is left
\* and the receiver dropped with whatever is still queued.
Exit(t, why) == [t EXCEPT !.pc = "exited", !.exit_by = why, !.queue = <<>>]

\* The task once it has taken a message from its channel.
Dequeued(t) == [t EXCEPT !.queue = Tail(t.queue),
                         !.handled = Append(t.handled, t.queue[1].kind)]

InitBot ==
    /\ fen = STARTPOS
    /\ board = DefaultBoard
    /\ prev = board
    /\ hist = <<>>
    /\ turn = "White"
    /\ phase = "bot"
    /\ notation = NoNotation
    /\ call = NoCall
    /\ \E first \in {"NewChallenge", "NewGame"},
          no_accept \in BOOLEAN, following_only \in BOOLEAN,
          follows \in BOOLEAN, lookup_ok \in BOOLEAN :
          /\ first = "NewGame" => ~no_accept /\ ~following_only /\ follows /\ lookup_ok
          /\ task = [pc |-> "recv", exit_by |-> "none", process |-> "running",
                     started_by |-> first,
                     queue |-> <<[kind |-> first]>>, sends |-> 0, dropped |-> 0,
                     handled |-> <<>>, commands |-> <<>>,
                     abort_sent |-> FALSE, abort_in_search |-> FALSE,
                     color |-> "White", last_move |-> NoMove,
                     opponent_last_move |-> NoMove, has_board |-> FALSE,
                     relay |-> NoMove, others |-> 0,
                     config |-> [no_accept |-> no_accept,
                                 following_only |-> following_only],
                     follows |-> follows, lookup_ok |-> lookup_ok]

\* ---- the senders ----

\* A sender may send: the process runs and the bound is not reached.
MaySend == phase = "bot" /\ task.process = "running" /\ task.sends < MaxMessages

Sent(t, message) == [channel_send(t, message) EXCEPT !.sends = t.sends + 1]

\* handle_new_game: the stream of board events feeds the channel of the task
\* it spawned; the channel of a challenge's task is known to abort_task
\* alone.
MaySendBoardEvent == MaySend /\ task.started_by = "NewGame"

\* abort_task: Abort goes to the game's channel.
SendAbort ==
    /\ MaySend
    /\ task' = [Sent(task, [kind |-> "Abort"]) EXCEPT
                   !.abort_sent = TRUE,
                   !.abort_in_search = task.abort_in_search \/ task.pc = "search"]
    /\ UNCHANGED <<fen, board, prev, hist, turn, phase, notation, call>>

\* dispatch_board_event, ChatLine
SendBoardChat ==
    /\ MaySendBoardEvent
    /\ \E text \in ChatTexts : task' = Sent(task, [kind |-> "BoardChat", text |-> text])
    /\ UNCHANGED <<fen, board, prev, hist, turn, phase, notation, call>>

\* dispatch_board_event, GameState with a draw offer
SendDrawOffer ==
    /\ MaySendBoardEvent
    /\ \E color \in Colors : task' = Sent(task, [kind |-> "DrawOffer", color |-> color])
    /\ UNCHANGED <<fen, board, prev, hist, turn, phase, notation, call>>

\* dispatch_board_event, GameFull: the game's initial FEN, no move played
\* yet, and the bot's colour.
SendSetBoard ==
    /\ MaySendBoardEvent
    /\ ~task.has_board
    /\ \A i \in 1..Len(task.queue) : task.queue[i].kind # "SetBoard"
    /\ \E f \in BotFens, own_color \in Colors :
          task' = Sent(task, [kind |-> "SetBoard", fen |-> f, moves |-> <<>>,
                              own_color |-> own_color])
    /\ UNCHANGED <<fen, board, prev, hist, turn, phase, notation, call>>

\* dispatch_board_event, GameState: the opponent has played a legal move of
\* the game, which the task's board mirrors once the queue holds no move.
SendMove ==
    /\ MaySendBoardEvent
    /\ task.has_board /\ task.pc = "recv" /\ task.relay = NoMove
    /\ \A i \in 1..Len(task.queue) : task.queue[i].kind \notin {"SetBoard", "Move"}
    /\ turn = Opposite(task.color)
    /\ \E sent \in ServiceMoves(board, turn, {}), game_over \in BOOLEAN :
          task' = Sent(task, [kind |-> "Move",
                              m |-> from_pure_notation(to_pure_notation(sent)),
                              color |-> turn, game_over |-> game_over])
    /\ UNCHANGED <<fen, board, prev, hist, turn, phase, notation, call>>

\* dispatch_board_event, GameState: the service relays the move the bot
\* submitted.
RelayOwnMove ==
    /\ phase = "bot" /\ task.process = "running"
    /\ task.relay # NoMove
    /\ task' = [channel_send(task, [kind |-> "Move",
                                    m |-> from_pure_notation(to_pure_notation(task.relay)),
                                    color |-> task.color, game_over |-> FALSE])
                   EXCEPT !.relay = NoMove]
    /\ UNCHANGED <<fen, board, prev, hist, turn, phase, notation, call>>

\* dispatch_board_event, GameState: a board-state event arrives again with
\* an unchanged move list, and the last move of the game is sent once more.
RepeatMove ==
    /\ MaySendBoardEvent
    /\ task.has_board /\ task.relay = NoMove
    /\ \A i \in 1..Len(task.queue) : task.queue[i].kind \notin {"SetBoard", "Move"}
    /\ LET by_bot == turn # task.color
           m == IF by_bot THEN task.last_move ELSE task.opponent_last_move
       IN  /\ m # NoMove
           /\ task' = Sent(task, [kind |-> "Move", m |-> m,
                                  color |-> IF by_bot THEN task.color
                                            ELSE Opposite(task.color),
                                  game_over |-> FALSE])
    /\ UNCHANGED <<fen, board, prev, hist, turn, phase, notation, call>>

\* The tasks of the other games take a step.
OtherTask ==
    /\ phase = "bot" /\ task.process = "running"
    /\ task.others < MaxOthers
    /\ task' = [task EXCEPT !.others = task.others + 1]
    /\ UNCHANGED <<fen, board, prev, hist, turn, phase, notation, call>>

\* ---- the per-game task: message_loop ----

\* The task takes from its channel a message of the given kind.
Receives(kind) ==
    /\ phase = "bot" /\ task.process = "running"
    /\ task.pc = "recv" /\ task.queue # <<>>
    /\ task.queue[1].kind = kind

\* Message::NewChallenge: accept_or_decline_challenge issues its command;
\* unless the challenge was accepted and the call succeeded, the loop is
\* left.
HandleNewChallenge ==
    /\ Receives("NewChallenge")
    /\ \E ok \in BOOLEAN :
          LET t == Dequeued(task)
              accepting == accept(t.config, is_following(t))
              issued == [t EXCEPT !.commands =
                            Append(t.commands,
                                   IF accepting THEN Command(t, "accept", ok)
                                   ELSE DeclineCommand(t, ok))]
          IN  task' = IF accepting /\ ok THEN issued ELSE Exit(issued, "declined")
    /\ UNCHANGED <<fen, board, prev, hist, turn, phase, notation, call>>

\* Message::NewGame
HandleNewGame ==
    /\ Receives("NewGame")
    /\ task' = Dequeued(task)
    /\ UNCHANGED <<fen, board, prev, hist, turn, phase, notation, call>>

\* Message::Abort
HandleAbort ==
    /\ Receives("Abort")
    /\ task' = Exit(Dequeued(task), "abort")
    /\ UNCHANGED <<fen, board, prev, hist, turn, phase, notation, call>>

\* Message::BoardChat: ".version" is answered in the chat, a failure of the
\* call being ignored.
HandleBoardChat ==
    /\ Receives("BoardChat")
    /\ LET t == Dequeued(task)
       IN  task' = IF task.queue[1].text = <<".", "v", "e", "r", "s", "i", "o", "n">>
                   THEN [t EXCEPT !.commands = Append(t.commands, Command(t, "chat", TRUE))]
                   ELSE t
    /\ UNCHANGED <<fen, board, prev, hist, turn, phase, notation, call>>

\* Message::DrawOffer
HandleDrawOffer ==
    /\ Receives("DrawOffer")
    /\ task' = Dequeued(task)
    /\ UNCHANGED <<fen, board, prev, hist, turn, phase, notation, call>>

\* Message::Move: a repeated move is ignored; otherwise the Brain applies it
\* (a panic of apply_move ends the task) and, after a move of the opponent
\* that does not end the game, find_and_send_move starts the search and
\* suspends on its reply.
HandleMove ==
    /\ Receives("Move")
    /\ LET t == Dequeued(task)
           message == task.queue[1]
           bot_move == message.color = t.color
           repeated == is_repeated(t, message)
       IN  IF repeated
           THEN task' = t /\ UNCHANGED <<board, prev, turn>>
           ELSE IF apply_move_panics(board, message.m)
           THEN task' = Exit(t, "panic") /\ UNCHANGED <<board, prev, turn>>
           ELSE /\ board' = apply_move(board, message.m)
                /\ prev' = board
                /\ turn' = Opposite(turn)
                /\ task' = IF bot_move THEN [t EXCEPT !.last_move = message.m]
                           ELSE IF message.game_over
                           THEN Exit([t EXCEPT !.opponent_last_move = message.m], "game over")
                           ELSE [t EXCEPT !.opponent_last_move = message.m, !.pc = "search"]
    /\ UNCHANGED <<fen, hist, phase, notation, call>>

\* moves.get(moves.len().wrapping_sub(k)) / moves.last(): the k-th move from
\* the end, None when there are fewer than k moves.
FromEnd(moves, k) == IF Len(moves) < k THEN NoMove ELSE moves[Len(moves) - k + 1]

\* moves.iter().for_each(|m| board.apply_move(m))
RECURSIVE ApplyAll(_, _)
ApplyAll(b, moves) ==
    IF moves = <<>> THEN b ELSE ApplyAll(apply_move(b, moves[1]), Tail(moves))

\* Message::SetBoard: the Brain gets the board of the FEN with the moves
\* applied (the expect on from_fen panics on an Err and ends the task); on
\* the bot's turn find_and_send_move starts the search and suspends on its
\* reply.
HandleSetBoard ==
    /\ Receives("SetBoard")
    /\ LET t == Dequeued(task)
           message == task.queue[1]
           parsed == from_fen(message.fen)
           mine == bots_turn(message.own_color, message.moves)
       IN  IF parsed.status # "ok"
           THEN task' = Exit(t, "panic") /\ UNCHANGED <<fen, board, prev, turn>>
           ELSE /\ board' = ApplyAll(parsed.board, message.moves)
                /\ prev' = board
                /\ fen' = message.fen
                /\ turn' = IF Len(message.moves) % 2 = 0 THEN FenActiveColor(message.fen)
                           ELSE Opposite(FenActiveColor(message.fen))
                /\ task' = [t EXCEPT
                              !.color = message.own_color,
                              !.has_board = TRUE,
                              !.last_move = FromEnd(message.moves, IF mine THEN 2 ELSE 1),
                              !.opponent_last_move =
                                  FromEnd(message.moves, IF mine THEN 1 ELSE 2),
                              !.pc = IF mine THEN "search" ELSE "recv"]
    /\ UNCHANGED <<hist, phase, notation, call>>

\* find_and_send_move from the one-shot reply on, and the code after it in
\* message_loop.  A panic of the search happens on a worker of the rayon
\* pool inside rayon::spawn, for which no panic handler is installed: the
\* process is aborted.  Otherwise the reply is Some(best.m): the task posts
\* the time taken in the chat (a failure is ignored) and submits the move,
\* which the service refuses unless it is a legal move of the side to move;
\* when the submission fails the task resigns (a failure is ignored) and
\* leaves the loop.
SearchDone ==
    /\ phase = "bot" /\ task.process = "running"
    /\ task.pc = "search"
    /\ LET best == root_search(board, task.color)
           timed == [task EXCEPT !.commands = Append(task.commands,
                                                     Command(task, "chat", TRUE))]
       IN  IF best.panicked
           THEN task' = [task EXCEPT !.process = "aborted"]
           ELSE \E ok \in BOOLEAN :
                   /\ ok => turn = task.color /\ best.m \in ServiceMoves(board, turn, {})
                   /\ task' =
                        IF ok
                        THEN [timed EXCEPT
                                 !.commands = Append(timed.commands,
                                                     Command(task, "move", TRUE)),
                                 !.relay = best.m,
                                 !.pc = "recv"]
                        ELSE Exit([timed EXCEPT
                                      !.commands = timed.commands
                                          \o <<Command(task, "move", FALSE),
                                               Command(task, "resign", TRUE)>>],
                                  "resigned")
    /\ UNCHANGED <<fen, board, prev, hist, turn, phase, notation, call>>

NextBot ==
    \/ SendAbort \/ SendBoardChat \/ SendDrawOffer \/ SendSetBoard \/ SendMove
    \/ RelayOwnMove \/ RepeatMove \/ OtherTask
    \/ HandleNewChallenge \/ HandleNewGame \/ HandleAbort \/ HandleBoardChat
    \/ HandleDrawOffer \/ HandleMove \/ HandleSetBoard
    \/ SearchDone

SpecBot == InitBot /\ [][NextBot]_vars

\* ------------------------------------------------------------------------
\* Generated play from the default board: the board stands after the first
\* moves of a line the generator offers move by move, and the sides then go
\* on with any move list_potential_moves offers them.
\* ------------------------------------------------------------------------

\* 1. f3 e5 2. g4 Qh4
OPENING_LINE ==
    <<Move(Pos(5, 1), Pos(5, 2), "None"), Move(Pos(4, 6), Pos(4, 4), "None"),
      Move(Pos(6, 1), Pos(6, 3), "None"), Move(Pos(3, 7), Pos(7, 3), "None")>>

\* Every move of `moves` is offered by the generator to the side to move
\* and applied by apply_move, color moving first.
RECURSIVE IsGeneratedLine(_, _, _)
IsGeneratedLine(b, color, moves) ==
    IF moves = <<>> THEN TRUE
    ELSE /\ moves[1] \in list_potential_moves(b, color)
         /\ ~apply_move_panics(b, moves[1])
         /\ IsGeneratedLine(apply_move(b, moves[1]), Opposite(color), Tail(moves))

InitGenerated ==
    /\ fen = STARTPOS
    /\ \E n \in 0..Len(OPENING_LINE) :
          LET played == SubSeq(OPENING_LINE, 1, n)
          IN  /\ IsGeneratedLine(DefaultBoard, "White", played)
              /\ board = ApplyAll(DefaultBoard, played)
              /\ turn = IF n % 2 = 0 THEN "White" ELSE "Black"
    /\ prev = board
    /\ hist = <<>>
    /\ phase = "search"
    /\ notation = NoNotation
    /\ call = NoCall
    /\ task = NoTask

NextGenerated == EngineMove

SpecGenerated == InitGenerated /\ [][NextGenerated]_vars

\* ------------------------------------------------------------------------
\* Board::from_fen on its own: a FEN of two kings in which one rank of the
\* placement is replaced by some text, ranks or fields are missing or
\* added, and the en passant field names any square; from_fen is then
\* called on it.
\* ------------------------------------------------------------------------

\* The ranks and the fields of a FEN.
FEN_RANKS == 8
FEN_FIELDS == 6

\* The texts that replace one rank.
RankTexts ==
    {<<"8">>, <<"4", "P", "3">>, <<"7">>, <<"9">>, <<"3", "p", "3">>, <<"x", "7">>,
     <<"7", "1", "1">>, <<"8", "p">>, <<"p", "p", "p", "p", "p", "p", "p", "p", "p">>}

\* The texts of the en passant field.
EnPassantTexts == {<<"-">>, <<"e", "3">>, <<"e", "6">>, <<"e", "4">>, <<"a", "8">>}

\* The ranks joined by '/'.
RECURSIVE JoinRanks(_)
JoinRanks(ranks) ==
    IF Len(ranks) = 0 THEN <<>>
    ELSE IF Len(ranks) = 1 THEN ranks[1]
    ELSE ranks[1] \o <<"/">> \o JoinRanks(Tail(ranks))

\* The squares a rank's text describes: a digit counts for its value, any
\* other character for one square.
RECURSIVE RankSquares(_)
RankSquares(text) ==
    IF text = <<>> THEN 0
    ELSE (IF to_digit(text[1]) >= 0 THEN to_digit(text[1]) ELSE 1) + RankSquares(Tail(text))

\* A malformed FEN: a placement without exactly 8 ranks, a placement
\* character that is neither a digit nor a piece letter, a rank that does
\* not total 8 files, a missing field, or an en passant square off ranks 3
\* and 6.
Malformed(f) ==
    \/ Len(f) < FEN_FIELDS
    \/ /\ Len(f) >= 1
       /\ \/ Len(Split(f[1], "/")) # FEN_RANKS
          \/ \E i \in 1..Len(f[1]) :
                f[1][i] # "/" /\ to_digit(f[1][i]) < 0 /\ PieceKindOf(f[1][i]) = "None"
          \/ \E k \in 1..Len(Split(f[1], "/")) : RankSquares(Split(f[1], "/")[k]) # 8
    \/ /\ Len(f) >= 4
       /\ f[4] # <<"-">>
       /\ from_notation(f[4]) # NoPosition
       /\ rank_y(from_notation(f[4])) \notin {2, 5}

InitFen ==
    /\ \E i \in 1..FEN_RANKS, text \in RankTexts,
          nranks \in (FEN_RANKS - 1)..(FEN_RANKS + 1),
          nfields \in 0..FEN_FIELDS, ep \in EnPassantTexts :
          LET ranks == [j \in 1..nranks |->
                           IF j = i THEN text
                           ELSE IF j = 1 THEN <<"4", "k", "3">>
                           ELSE IF j = FEN_RANKS THEN <<"4", "K", "3">>
                           ELSE <<"8">>]
          IN  fen = SubSeq(<<JoinRanks(ranks), <<"w">>, <<"-">>, ep, <<"0">>, <<"1">> >>,
                           1, nfields)
    /\ board = DefaultBoard
    /\ prev = board
    /\ hist = <<>>
    /\ turn = "White"
    /\ phase = "fen"
    /\ notation = NoNotation
    /\ call = NoCall
    /\ task = NoTask

\* The call Board::from_fen(fen): the Board it returns replaces the board;
\* call holds how the call ended.
FromFen ==
    /\ phase = "fen"
    /\ call = NoCall
    /\ call' = [fn |-> "from_fen", status |-> from_fen(fen).status]
    /\ board' = IF from_fen(fen).status = "ok" THEN from_fen(fen).board ELSE board
    /\ UNCHANGED <<fen, prev, hist, turn, phase, notation, task>>

NextFen == FromFen

SpecFen == InitFen /\ [][NextFen]_vars

\* ------------------------------------------------------------------------
\* get_pawn_moves_and_attacks on its own: one pawn of either colour on any
\* square, other pieces on the squares ahead of it and beside those, each a
\* friend or a foe, no en passant target; the routine is then called for
\* the pawn.
\* ------------------------------------------------------------------------

\* The squares where the other pieces may stand: the square ahead of the
\* pawn and its two neighbours in the bit order (on the edge files one of
\* them lies across the board's edge), and the square two ranks ahead.
Ahead(color, origin) ==
    IF color = "White" THEN {origin + 7, origin + 8, origin + 9, origin + 16} \cap Squares
    ELSE {origin - 7, origin - 8, origin - 9, origin - 16} \cap Squares

PawnBoard(color, origin, friends, foes) ==
    LET own == refresh([EmptySide(color) EXCEPT !.pawns = {origin}, !.knights = friends])
        other == refresh([EmptySide(Opposite(color)) EXCEPT !.knights = foes])
    IN  IF color = "White" THEN [white |-> own, black |-> other]
        ELSE [white |-> other, black |-> own]

InitPawn ==
    /\ fen = STARTPOS
    /\ \E color \in Colors, origin \in Squares :
         \E placed \in SUBSET Ahead(color, origin) :
           \E friends \in SUBSET placed :
              /\ board = PawnBoard(color, origin, friends, placed \ friends)
              /\ turn = color
              /\ call = [fn |-> "pawn", origin |-> origin, moves |-> {}]
    /\ prev = board
    /\ hist = <<>>
    /\ phase = "pawn"
    /\ notation = NoNotation
    /\ task = NoTask

\* The call get_pawn_moves_and_attacks(board, color, origin) for the pawn.
PawnMovesAndAttacks ==
    /\ phase = "pawn"
    /\ call.fn = "pawn"
    /\ call' = [call EXCEPT !.fn = "get_pawn_moves_and_attacks",
                            !.moves = get_pawn_moves_and_attacks(board, turn, {call.origin})]
    /\ UNCHANGED <<fen, board, prev, hist, turn, phase, notation, task>>

NextPawn == PawnMovesAndAttacks

SpecPawn == InitPawn /\ [][NextPawn]_vars

\* ------------------------------------------------------------------------
\* get_knight_moves and get_king_steps on their own: one knight or king of
\* either colour on any square, other pieces on the squares its table's
\* shifts reach in the bit order (across the board's edges too), each a
\* friend or a foe; the routine is then called for the piece.
\* ------------------------------------------------------------------------

\* The squares a shift of the table reaches from i in the bit order,
\* whether or not it crosses an edge of the board.
ShiftedFrom(kind, i) ==
    LET shifts == IF kind = "Knight" THEN {6, 10, 15, 17} ELSE {1, 7, 8, 9}
    IN  {i + n : n \in shifts} \cup {i - n : n \in shifts}

StepperBoard(kind, color, origin, friends, foes) ==
    LET mover == IF kind = "Knight"
                 THEN [EmptySide(color) EXCEPT !.knights = {origin}, !.pawns = friends]
                 ELSE [EmptySide(color) EXCEPT !.king = {origin}, !.pawns = friends]
        other == refresh([EmptySide(Opposite(color)) EXCEPT !.pawns = foes])
    IN  IF color = "White" THEN [white |-> refresh(mover), black |-> other]
        ELSE [white |-> other, black |-> refresh(mover)]

InitSteps ==
    /\ fen = STARTPOS
    /\ \E kind \in {"Knight", "King"}, color \in Colors, origin \in Squares :
         \E placed \in SubsetsUpTo(ShiftedFrom(kind, origin) \cap Squares, MaxBlockers) :
           \E friends \in SUBSET placed :
              /\ board = StepperBoard(kind, color, origin, friends, placed \ friends)
              /\ turn = color
              /\ call = [fn |-> "steps", kind |-> kind, origin |-> origin, moves |-> {}]
    /\ prev = board
    /\ hist = <<>>
    /\ phase = "steps"
    /\ notation = NoNotation
    /\ task = NoTask

\* The call get_knight_moves(board, color, origin) for the knight.
GetKnightMoves ==
    /\ phase = "steps"
    /\ call.fn = "steps" /\ call.kind = "Knight"
    /\ call' = [call EXCEPT !.fn = "get_knight_moves",
                            !.moves = get_knight_moves(board, turn, call.origin)]
    /\ UNCHANGED <<fen, board, prev, hist, turn, phase, notation, task>>

\* The call get_king_steps(board, color, origin) for the king.
GetKingSteps ==
    /\ phase = "steps"
    /\ call.fn = "steps" /\ call.kind = "King"
    /\ call' = [call EXCEPT !.fn = "get_king_steps",
                            !.moves = get_king_steps(board, turn, call.origin)]
    /\ UNCHANGED <<fen, board, prev, hist, turn, phase, notation, task>>

NextSteps == GetKnightMoves \/ GetKingSteps

SpecSteps == InitSteps /\ [][NextSteps]_vars

\* ------------------------------------------------------------------------
\* poirebot-lichess bot.rs: the incoming-event loop with its World and the
\* per-game tasks of one game id.  Here the task variable holds the world:
\* games is the entry of World.games for the id (0 for none, otherwise the
\* index of the task whose sender it holds), tasks the tasks spawned so
\* far, each with its own channel, Brain board and side to move, process
\* whether the process runs.  A message carries `via`: "world" when it was
\* sent through World.games, "stream" when the game's board-event stream
\* sent it through its own clone of the sender.
\* ------------------------------------------------------------------------

\* A task just spawned with the first message on its channel.  superseded_at
\* is -1 until handle_new_game replaces the task's entry, then the number of
\* commands the task had issued by that time.
SpawnedTask(first) ==
    [pc |-> "recv", exit_by |-> "none", started_by |-> first,
     queue |-> <<[kind |-> first, via |-> "world"]>>, dropped |-> 0,
     handled |-> <<>>, commands |-> <<>>, abort_in_search |-> FALSE,
     color |-> "White", last_move |-> NoMove, opponent_last_move |-> NoMove,
     has_board |-> FALSE, board |-> DefaultBoard, turn |-> "White",
     follows |-> TRUE, lookup_ok |-> TRUE, superseded_at |-> -1]

\* Fault variant of abort_task: the entry is left in World.games.
abort_task_keeps_entry(w) ==
    IF w.games = 0 THEN w
    ELSE [w EXCEPT !.tasks[w.games] =
                      channel_send(w.tasks[w.games], [kind |-> "Abort", via |-> "world"])]

\* abort_task: Abort goes to the sender World.games holds for the id, and
\* the entry is removed; without an entry nothing happens.
abort_task(w) ==
    IF w.games = 0 THEN w
    ELSE [w EXCEPT !.tasks[w.games] =
                      channel_send(w.tasks[w.games], [kind |-> "Abort", via |-> "world"]),
                   !.games = 0]

\* handle_new_challenge: a task is spawned, its sender inserted for the id
\* (replacing what was there) and NewChallenge sent to it.
handle_new_challenge(w) ==
    [w EXCEPT !.tasks = Append(w.tasks, SpawnedTask("NewChallenge")),
              !.games = Len(w.tasks) + 1]

\* Fault variant of handle_new_game: an existing task is not aborted.
handle_new_game_without_abort(w) ==
    [w EXCEPT !.tasks = Append(w.tasks, SpawnedTask("NewGame")),
              !.games = Len(w.tasks) + 1]

\* handle_new_game: the task holding the id's entry, if any, is aborted;
\* then a task is spawned, its sender inserted for the id, NewGame sent to
\* it and its board-event stream started.
handle_new_game(w) ==
    LET aborted == IF w.games # 0
                   THEN [abort_task(w) EXCEPT
                            !.tasks[w.games].superseded_at = Len(w.tasks[w.games].commands)]
                   ELSE w
    IN  [aborted EXCEPT !.tasks = Append(aborted.tasks, SpawnedTask("NewGame")),
                        !.games = Len(aborted.tasks) + 1]

\* message_loop for a task that carries its own board: the tasks it may
\* become by handling the first message of its channel.
loop_handle(t, config) ==
    LET message == t.queue[1]
        d == Dequeued(t)
    IN  CASE message.kind = "NewChallenge" ->
               {LET accepting == accept(config, is_following(d))
                    issued == [d EXCEPT !.commands =
                                  Append(d.commands,
                                         IF accepting THEN Command(d, "accept", ok)
                                         ELSE DeclineCommand(d, ok))]
                IN  IF accepting /\ ok THEN issued ELSE Exit(issued, "declined")
                : ok \in BOOLEAN}
          [] message.kind = "Abort" -> {Exit(d, "abort")}
          [] message.kind = "BoardChat" ->
               {IF message.text = <<".", "v", "e", "r", "s", "i", "o", "n">>
                THEN [d EXCEPT !.commands = Append(d.commands, Command(d, "chat", TRUE))]
                ELSE d}
          [] message.kind = "Move" ->
               {LET bot_move == message.color = d.color
                    repeated == is_repeated(d, message)
                IN  IF repeated THEN d
                    ELSE IF apply_move_panics(d.board, message.m) THEN Exit(d, "panic")
                    ELSE LET moved == [d EXCEPT !.board = apply_move(d.board, message.m),
                                                !.turn = Opposite(d.turn)]
                         IN  IF bot_move THEN [moved EXCEPT !.last_move = message.m]
                             ELSE IF message.game_over
                             THEN Exit([moved EXCEPT !.opponent_last_move = message.m],
                                       "game over")
                             ELSE [moved EXCEPT !.opponent_last_move = message.m,
                                                !.pc = "search"]}
          [] message.kind = "SetBoard" ->
               {LET parsed == from_fen(message.fen)
                    mine == bots_turn(message.own_color, message.moves)
                IN  IF parsed.status # "ok" THEN Exit(d, "panic")
                    ELSE [d EXCEPT
                            !.board = ApplyAll(parsed.board, message.moves),
                            !.turn = IF Len(message.moves) % 2 = 0
                                     THEN FenActiveColor(message.fen)
                                     ELSE Opposite(FenActiveColor(message.fen)),
                            !.color = message.own_color,
                            !.has_board = TRUE,
                            !.last_move = FromEnd(message.moves, IF mine THEN 2 ELSE 1),
                            !.opponent_last_move =
                                FromEnd(message.moves, IF mine THEN 1 ELSE 2),
                            !.pc = IF mine THEN "search" ELSE "recv"]}
          [] OTHER -> {d}

\* find_and_send_move from the one-shot reply on, for a task that carries
\* its own board: the tasks it may become.  The move is refused unless it is
\* a legal move of the side to move.
loop_search_done(t) ==
    LET best == root_search(t.board, t.color)
        timed == [t EXCEPT !.commands = Append(t.commands, Command(t, "chat", TRUE))]
        sent == [timed EXCEPT !.commands = Append(timed.commands, Command(t, "move", TRUE)),
                              !.pc = "recv"]
        refused == Exit([timed EXCEPT !.commands = timed.commands
                                          \o <<Command(t, "move", FALSE),
                                               Command(t, "resign", TRUE)>>],
                        "resigned")
    IN  {refused} \cup (IF t.turn = t.color /\ best.m \in ServiceMoves(t.board, t.turn, {})
                        THEN {sent} ELSE {})

InitWorld ==
    /\ fen = STARTPOS
    /\ board = DefaultBoard
    /\ prev = board
    /\ hist = <<>>
    /\ turn = "White"
    /\ phase = "world"
    /\ notation = NoNotation
    /\ call = NoCall
    /\ \E no_accept \in BOOLEAN :
          task = [games |-> 0, tasks |-> <<>>, sends |-> 0, process |-> "running",
                  config |-> [no_accept |-> no_accept, following_only |-> FALSE]]

WorldRuns == phase = "world" /\ task.process = "running"

WorldUnchanged == UNCHANGED <<fen, board, prev, hist, turn, phase, notation, call>>

\* process_incoming_event, Event::Challenge
EventChallenge ==
    /\ WorldRuns
    /\ Len(task.tasks) < MaxTasks
    /\ task' = handle_new_challenge(task)
    /\ WorldUnchanged

\* process_incoming_event, Event::GameStart
EventGameStart ==
    /\ WorldRuns
    /\ Len(task.tasks) < MaxTasks
    /\ task' = handle_new_game(task)
    /\ WorldUnchanged

\* process_incoming_event, Event::ChallengeCanceled, ChallengeDeclined and
\* GameFinish (rematch not configured)
EventAbort ==
    /\ WorldRuns
    /\ task' = abort_task(task)
    /\ task' # task
    /\ WorldUnchanged

\* The board-event stream handle_new_game started for task k sends the
\* game's SetBoard through its own sender.
StreamSetBoard ==
    /\ WorldRuns
    /\ task.sends < MaxMessages
    /\ \E k \in 1..Len(task.tasks), own_color \in Colors :
          /\ task.tasks[k].started_by = "NewGame"
          /\ ~task.tasks[k].has_board
          /\ \A i \in 1..Len(task.tasks[k].queue) : task.tasks[k].queue[i].kind # "SetBoard"
          /\ task' = [task EXCEPT
                         !.sends = task.sends + 1,
                         !.tasks[k] = channel_send(task.tasks[k],
                                          [kind |-> "SetBoard", via |-> "stream",
                                           fen |-> FEN_BARE_KINGS, moves |-> <<>>,
                                           own_color |-> own_color])]
    /\ WorldUnchanged

\* The board-event stream of task k relays a move of the opponent.
StreamMove ==
    /\ WorldRuns
    /\ task.sends < MaxMessages
    /\ \E k \in 1..Len(task.tasks) :
          LET t == task.tasks[k]
          IN  /\ t.has_board /\ t.pc = "recv" /\ t.turn = Opposite(t.color)
              /\ \A i \in 1..Len(t.queue) : t.queue[i].kind # "Move"
              /\ \E sent \in ServiceMoves(t.board, t.turn, {}) :
                    task' = [task EXCEPT
                                !.sends = task.sends + 1,
                                !.tasks[k] = channel_send(t,
                                    [kind |-> "Move", via |-> "stream",
                                     m |-> from_pure_notation(to_pure_notation(sent)),
                                     color |-> t.turn, game_over |-> FALSE])]
    /\ WorldUnchanged

\* Task k takes the first message from its channel and handles it.
TaskHandles ==
    /\ WorldRuns
    /\ \E k \in 1..Len(task.tasks) :
          /\ task.tasks[k].pc = "recv" /\ task.tasks[k].queue # <<>>
          /\ \E t \in loop_handle(task.tasks[k], task.config) :
                task' = [task EXCEPT !.tasks[k] = t]
    /\ WorldUnchanged

\* The search of task k replies.  A panic of the search aborts the process.
TaskSearchDone ==
    /\ WorldRuns
    /\ \E k \in 1..Len(task.tasks) :
          /\ task.tasks[k].pc = "search"
          /\ IF root_search(task.tasks[k].board, task.tasks[k].color).panicked
             THEN task' = [task EXCEPT !.process = "aborted"]
             ELSE \E t \in loop_search_done(task.tasks[k]) :
                     task' = [task EXCEPT !.tasks[k] = t]
    /\ WorldUnchanged

NextWorld ==
    \/ EventChallenge \/ EventGameStart \/ EventAbort
    \/ StreamSetBoard \/ StreamMove
    \/ TaskHandles \/ TaskSearchDone

SpecWorld == InitWorld /\ [][NextWorld]_vars

\* ------------------------------------------------------------------------
\* Rematches (SpecRematch): the incoming-event loop of start_bot with the
\* configuration main builds from the command line. A game is running
\* against an opponent; GameFinish aborts its task and, with --rematch,
\* challenges the opponent again; the challenged opponent starts the next
\* game. The task variable holds the world together with the configuration,
\* the opponent of the running game and the challenges issued so far.
\* ------------------------------------------------------------------------

\* --stockfish was not given.
NoStockfish == [given |-> FALSE, min |-> 0, max |-> 0]

\* --stockfish=N (max = min) or --stockfish=N-M, as main parses it.
StockfishOptions ==
    {NoStockfish} \cup {[given |-> TRUE, min |-> a, max |-> b] : a, b \in 1..MaxLevel}

\* main: bot::Config from the arguments; map_or(0, ..) for the two levels.
main_config(option, rematch) ==
    [no_accept |-> FALSE, following_only |-> FALSE, rematch |-> rematch,
     stockfish |-> IF option.given THEN option.min ELSE 0,
     stockfish_max |-> IF option.given THEN option.max ELSE 0]

\* Ord::clamp: panics when min > max, otherwise the value brought into
\* min..max.
clamp(x, lo, hi) ==
    IF lo > hi THEN [panicked |-> TRUE, value |-> 0]
    ELSE [panicked |-> FALSE,
          value |-> IF x < lo THEN lo ELSE IF x > hi THEN hi ELSE x]

\* The opponents of a game: a user, or the computer at one of its levels.
Opponents ==
    {[kind |-> "Entity", ai_level |-> 0]}
        \cup {[kind |-> "StockFish", ai_level |-> l] : l \in 1..MaxLevel}

\* send_stockfish_challenge and send_user_challenge: the challenge is created
\* unless the service fails, which returns Err.
send_challenge(w, challenge, send_ok) ==
    IF send_ok THEN [w EXCEPT !.issued = Append(@, challenge)]
    ELSE [w EXCEPT !.errors = @ + 1]

\* send_rematch: the game is fetched (Err when that fails), its opponent
\* determined, and the opponent challenged: a user by name, the computer at
\* (ai_level + 1).clamp(ai_level, config.stockfish_max), both u8.
send_rematch(w, fetch_ok, send_ok) ==
    IF ~fetch_ok THEN [w EXCEPT !.errors = @ + 1]
    ELSE IF w.opponent.kind = "Entity"
    THEN send_challenge(w, w.opponent, send_ok)
    ELSE LET level == clamp((w.opponent.ai_level + 1) % 256, w.opponent.ai_level,
                            w.config.stockfish_max)
         IN  IF level.panicked THEN [w EXCEPT !.process = "panicked"]
             ELSE send_challenge(w, [kind |-> "StockFish", ai_level |-> level.value],
                                 send_ok)

InitRematch ==
    /\ fen = STARTPOS
    /\ board = DefaultBoard
    /\ prev = board
    /\ hist = <<>>
    /\ turn = "White"
    /\ phase = "rematch"
    /\ notation = NoNotation
    /\ call = NoCall
    /\ \E option \in StockfishOptions, rematch \in BOOLEAN, opponent \in Opponents :
          \* the challenge main sends with --stockfish is at the option's min
          /\ option.given => opponent = [kind |-> "StockFish", ai_level |-> option.min]
          /\ task = [games |-> 1, tasks |-> <<SpawnedTask("NewGame")>>, sends |-> 0,
                     process |-> "running", config |-> main_config(option, rematch),
                     opponent |-> opponent, playing |-> TRUE, finished |-> 0,
                     issued |-> <<>>, errors |-> 0,
                     last |-> [fetch_ok |-> TRUE, send_ok |-> TRUE]]

RematchRuns == phase = "rematch" /\ task.process = "running"

\* process_incoming_event, Event::GameFinish: abort_task, then send_rematch
\* when config.rematch; an Err is logged by start_bot and the loop goes on.
EventGameFinish ==
    /\ RematchRuns
    /\ task.playing
    /\ task.finished < MaxFinishes
    /\ \E fetch_ok \in BOOLEAN, send_ok \in BOOLEAN :
          LET w == [abort_task(task) EXCEPT !.playing = FALSE, !.finished = @ + 1,
                                            !.last = [fetch_ok |-> fetch_ok,
                                                      send_ok |-> send_ok]]
          IN  task' = IF w.config.rematch THEN send_rematch(w, fetch_ok, send_ok) ELSE w
    /\ WorldUnchanged

\* process_incoming_event, Event::GameStart: the opponent last challenged
\* starts the next game.
EventRematchStart ==
    /\ RematchRuns
    /\ ~task.playing
    /\ task.issued # <<>>
    /\ Len(task.tasks) < MaxTasks
    /\ task' = [handle_new_game(task) EXCEPT !.playing = TRUE,
                                             !.opponent = task.issued[Len(task.issued)]]
    /\ WorldUnchanged

NextRematch == EventGameFinish \/ EventRematchStart

SpecRematch == InitRematch /\ [][NextRematch]_vars

\* ------------------------------------------------------------------------
\* Nodes of the search (SpecNode): negamax reaches a node by applying moves
\* of list_potential_moves from the position it was called for (EngineMove)
\* and searches the node with the depth that is left.  NegamaxNode is that
\* search with the full window, next to the same recursion without the
\* cutoff; the genius is the side to move in the starting position.
\* ------------------------------------------------------------------------

\* 7k/8/6P1/8/8/8/8/K7 w - - 0 1
\* (the pawn attacks f7 and h7, squares the black king may step onto)
FEN_PAWN_GUARDS ==
    << <<"7", "k", "/", "8", "/", "6", "P", "1", "/", "8", "/", "8", "/", "8", "/",
         "8", "/", "K", "7">>,
       <<"w">>, <<"-">>, <<"-">>, <<"0">>, <<"1">> >>

\* 7k/8/6P1/8/8/8/8/K7 b - - 0 1
\* (the same position with Black to move)
FEN_PAWN_GUARDS_BLACK ==
    << <<"7", "k", "/", "8", "/", "6", "P", "1", "/", "8", "/", "8", "/", "8", "/",
         "8", "/", "K", "7">>,
       <<"b">>, <<"-">>, <<"-">>, <<"0">>, <<"1">> >>

NodeFens == {FEN_PAWN_GUARDS, FEN_PAWN_GUARDS_BLACK, FEN_EN_PASSANT_WHITE}

\* negamax with the `if alpha >= beta { break; }` of its loop removed.
RECURSIVE negamax_without_cutoff(_, _, _, _, _, _, _)
RECURSIVE negamax_without_cutoff_from(_, _, _, _, _, _, _, _, _, _)
negamax_without_cutoff(genius_color, b, depth, alpha, beta, color, previous_moves) ==
    LET moves == list_potential_moves_in_order(b, color)
    IN  IF depth = 0 \/ moves = <<>>
        THEN IF previous_moves = <<>> THEN NodePanic
             ELSE [eval |-> IF moves = <<>> /\ color = genius_color THEN Worst
                            ELSE IF moves = <<>> /\ color # genius_color THEN Best
                            ELSE evaluate(genius_color, b),
                   m |-> previous_moves[1],
                   panicked |-> FALSE]
        ELSE negamax_without_cutoff_from(genius_color, b, depth, alpha, beta, color,
                                         previous_moves, moves, 1, NodeDefault)

negamax_without_cutoff_from(genius_color, b, depth, alpha, beta, color, previous_moves,
                            moves, i, value) ==
    IF i > Len(moves) THEN value
    ELSE IF apply_move_panics(b, moves[i]) THEN NodePanic
    ELSE LET window == ChildWindow(alpha, beta)
             child == negamax_without_cutoff(genius_color, apply_move(b, moves[i]),
                                             depth - 1, window.alpha, window.beta,
                                             Opposite(color), Append(previous_moves, moves[i]))
             new_value == NodeMax(value, NodeNeg(child))
             new_alpha == EvalMax(alpha, new_value.eval)
         IN  IF child.panicked THEN NodePanic
             ELSE negamax_without_cutoff_from(genius_color, b, depth, new_alpha, beta,
                                              color, previous_moves, moves, i + 1,
                                              new_value)

\* The moves applied on the way to the node.
PreviousMoves == [i \in 1..Len(hist) |-> hist[i].m]

InitNode ==
    /\ fen \in NodeFens
    /\ from_fen(fen).status = "ok"
    /\ board = from_fen(fen).board
    /\ prev = board
    /\ hist = <<>>
    /\ turn = FenActiveColor(fen)
    /\ phase = "game"
    /\ notation = NoNotation
    /\ call = NoCall
    /\ task = NoTask

\* negamax for the node, some depth being left, with the full window.
NegamaxNode ==
    /\ phase \in {"game", "search"}
    /\ \E depth \in 0..SearchDepth :
          call' = [fn |-> "negamax", depth |-> depth,
                   genius_color |-> FenActiveColor(fen),
                   node |-> negamax(FenActiveColor(fen), board, depth, Worst, Best,
                                    turn, PreviousMoves),
                   without_cutoff |->
                       negamax_without_cutoff(FenActiveColor(fen), board, depth, Worst,
                                              Best, turn, PreviousMoves)]
    /\ phase' = "searched"
    /\ UNCHANGED <<fen, board, prev, hist, turn, notation, task>>

NextNode == EngineMove \/ NegamaxNode

SpecNode == InitNode /\ [][NextNode]_vars

\* ------------------------------------------------------------------------
\* Properties
\* ------------------------------------------------------------------------

\* The squares set in the six bitboards of a side, counted per bitboard.
KindCount(side) ==
    popcnt(side.pawns) + popcnt(side.rooks) + popcnt(side.knights)
        + popcnt(side.bishops) + popcnt(side.queens) + popcnt(side.king)

\* Whether the last apply_move took a piece.
LastTook == hist # <<>> /\ piece_taken(prev, Last.m) # NoPiece

\* C1: in every board reached by apply_move calls, no square is set in more
\* than one of the twelve piece bitboards: the popcount of
\* white.pieces | black.pieces equals the sum of the twelve per-kind
\* popcounts.
C1_NoSquareHeldTwice ==
    popcnt(board.white.pieces \cup board.black.pieces)
        = KindCount(board.white) + KindCount(board.black)

\* C1 witness: the search has applied a generated move that took a piece.
C1_Witness ==
    /\ phase = "search" /\ LastTook /\ Last.sent = NoMove
    /\ KindCount(get_side(board, turn)) = KindCount(get_side(prev, turn)) - 1

\* C2: every move of list_potential_moves has a piece of its colour on the
\* origin and none on the destination, and apply_move does not panic on a
\* generated move of the side to move (neither the empty-origin panic, nor
\* the friendly-fire panic, nor the castling rook assertions).
C2_GeneratedMovesApply ==
    /\ \A color \in Colors : \A m \in list_potential_moves(board, color) :
          /\ m[1] \in get_side(board, color).pieces
          /\ m[2] \notin get_side(board, color).pieces
    /\ \A m \in list_potential_moves(board, turn) : ~apply_move_panics(board, m)

\* C2 witness: two generated moves applied in turn from the default
\* position, the second by Black.
C2_Witness ==
    /\ fen = STARTPOS /\ phase = "search" /\ Len(hist) = 2
    /\ hist[1].sent = NoMove /\ hist[2].sent = NoMove
    /\ hist[1].color = "White" /\ hist[2].color = "Black"

\* C3: every move the search expands for the side to move leaves that
\* side's king, in the board that results from applying the move, on a
\* square no opposing piece attacks.
C3_SearchLeavesKingSafe ==
    (phase = "search" /\ hist # <<>>) => ~InCheck(board, Last.color)

\* C4: for every Move m, from_pure_notation(to_pure_notation(m)) = m; the
\* promotion letter of a five-character text is recovered.
C4_NotationRoundTrip ==
    notation.stage = "parsed" => notation.parsed = notation.m

\* C5: in every board a per-game task holds and in every board the search
\* visits, neither side has a pawn on rank 1 or rank 8.
C5_NoPawnOnLastRank ==
    (board.white.pawns \cup board.black.pawns) \cap (RANK_1 \cup RANK_8) = {}

\* The six piece bitboards of a side.
Kinds(side) ==
    <<side.pawns, side.rooks, side.knights, side.bishops, side.queens, side.king>>

\* The last apply_move was an en passant capture of chess: a pawn moved
\* diagonally onto the square that an opposing pawn skipped on the
\* immediately preceding half-move.
LastIsEnPassant ==
    /\ hist # <<>>
    /\ Last.kind = "Pawn"
    /\ file_x(Last.m[1]) # file_x(Last.m[2])
    /\ Last.m[2] \in PassedAfter(Len(hist) - 1)
    /\ Last.m[2] \notin get_bitboard(prev)

\* C6: an en passant capture by colour C removes exactly the opposing pawn
\* on the square behind the destination, puts C's pawn on the destination
\* and removes no other piece.
C6_EnPassantTakesThePawnBehind ==
    LastIsEnPassant =>
        LET C      == Last.color
            behind == Pos(file_x(Last.m[2]), rank_y(Last.m[2]) - Direction(C))
            mine   == get_side(board, C)
            mine0  == get_side(prev, C)
            other  == get_side(board, Opposite(C))
            other0 == get_side(prev, Opposite(C))
        IN  /\ behind \in other0.pawns
            /\ Kinds(other) = [Kinds(other0) EXCEPT ![1] = other0.pawns \ {behind}]
            /\ Kinds(mine) = [Kinds(mine0) EXCEPT
                                 ![1] = (mine0.pawns \ {Last.m[1]}) \cup {Last.m[2]}]

\* C6 witness: White's pawn double-stepped under apply_move and Black's
\* pawn took it en passant on the next half-move.
C6_Witness ==
    /\ LastIsEnPassant /\ Len(hist) = 2 /\ Last.color = "Black"
    /\ popcnt(board.white.pawns) = popcnt(prev.white.pawns) - 1

\* C7: after apply_move(m) by colour C, C's en_passant_target is exactly the
\* square the pawn skipped if m is a pawn double-step, and empty otherwise;
\* hence each side's en_passant_target holds at most one bit.
C7_EnPassantTargetIsSkippedSquare ==
    hist # <<>> =>
        /\ get_side(board, Last.color).en_passant_target = PassedAfter(Len(hist))
        /\ popcnt(board.white.en_passant_target) <= 1
        /\ popcnt(board.black.en_passant_target) <= 1

\* C8: every apply_move by colour C leaves the opposing side's
\* en_passant_target empty, so the target of a double push is empty after
\* the opponent's next move.
C8_OpponentTargetCleared ==
    hist # <<>> =>
        /\ get_side(board, Opposite(Last.color)).en_passant_target = EMPTY
        /\ (Len(hist) >= 2 /\ IsDoubleStep(hist[Len(hist) - 1]))
              => get_side(board, hist[Len(hist) - 1].color).en_passant_target = EMPTY

\* C8 witness: a pawn double-stepped, which set its side's target, and the
\* opponent answered with a knight move that took nothing.
C8_Witness ==
    /\ Len(hist) = 2 /\ IsDoubleStep(hist[1])
    /\ Last.kind = "Knight" /\ ~LastTook
    /\ get_side(prev, hist[1].color).en_passant_target # EMPTY
    /\ get_side(board, hist[1].color).en_passant_target = EMPTY

\* The last apply_move moved a king two files along its home rank from the
\* e-file: a castling move.
LastIsCastling ==
    /\ hist # <<>>
    /\ Last.kind = "King"
    /\ Last.m[1] \in {SqE1, SqE8}
    /\ rank_y(Last.m[1]) = rank_y(Last.m[2])
    /\ Abs(file_x(Last.m[1]) - file_x(Last.m[2])) = 2

\* C9: apply_move of a castling king move, the matching rook standing
\* unmoved on its corner, also moves that rook (h-file rook to the f-file,
\* a-file rook to the d-file), sets king_has_moved and clears the rook's bit
\* in unmoved_rooks; any other king move sets king_has_moved and moves no
\* rook.
C9_CastlingMovesTheRook ==
    (hist # <<>> /\ Last.kind = "King") =>
        LET side     == get_side(board, Last.color)
            side0    == get_side(prev, Last.color)
            rank     == rank_y(Last.m[1])
            kingside == file_x(Last.m[2]) = 6
            corner   == IF kingside THEN Pos(7, rank) ELSE Pos(0, rank)
            rook_to  == IF kingside THEN Pos(5, rank) ELSE Pos(3, rank)
        IN  /\ side.king = {Last.m[2]}
            /\ side.king_has_moved
            /\ IF LastIsCastling /\ corner \in side0.rooks \cap side0.unmoved_rooks
               THEN /\ side.rooks = (side0.rooks \ {corner}) \cup {rook_to}
                    /\ side.unmoved_rooks = side0.unmoved_rooks \ {corner}
               ELSE /\ side.rooks = side0.rooks
                    /\ side.unmoved_rooks = side0.unmoved_rooks

\* C9 witness: White castled on one wing and Black answered by castling on
\* the other.
C9_Witness ==
    /\ LastIsCastling /\ Len(hist) = 2 /\ Last.color = "Black"
    /\ hist[1].kind = "King" /\ Abs(file_x(hist[1].m[1]) - file_x(hist[1].m[2])) = 2
    /\ file_x(hist[1].m[2]) # file_x(Last.m[2])
    /\ board.white.king_has_moved /\ board.black.king_has_moved

\* C10: for a board parsed from a FEN whose en passant field names square
\* t, get_pawn_moves_and_attacks for a pawn of the side to move standing
\* one rank behind t on an adjacent file includes t.
C10_FenEnPassantIsGenerated ==
    (hist = <<>> /\ phase = "game" /\ FenFields(fen)[4] # <<"-">>) =>
        LET t == from_notation(FenFields(fen)[4])
        IN  \A p \in get_side(board, turn).pawns :
               (rank_y(p) = rank_y(t) - Direction(turn) /\ Abs(file_x(p) - file_x(t)) = 1)
                  => t \in get_pawn_moves_and_attacks(board, turn, {p})

\* The squares walked from the called slider along the directions dirs, each
\* ray up to and including its first occupied square, without the squares
\* holding pieces of the slider's colour.
Walked(dirs) ==
    UNION {Ray(file_x(call.origin), rank_y(call.origin), d[1], d[2], get_bitboard(board)) :
              d \in dirs}
        \ get_side(board, turn).pieces

\* C11: for one sliding piece on any square, any occupancy and any set of
\* own pieces, the destinations each ray routine generates are the squares
\* walked along its rays from the slider up to and including the first
\* occupied square, without the squares holding own pieces: north and south
\* for the vertical routine, east, west, north-east and south-west for the
\* main diagonal routine, north-west and south-east for the anti-diagonal
\* one.
C11_RaysStopAtFirstBlocker ==
    phase = "sliding" =>
        /\ call.fn = "get_sliding_vertical_moves"
              => call.moves = Walked({<<0, 1>>, <<0, -1>>})
        /\ call.fn = "get_sliding_east_moves" => call.moves = Walked({<<1, 0>>})
        /\ call.fn = "get_sliding_west_moves" => call.moves = Walked({<<-1, 0>>})
        /\ call.fn = "get_sliding_main_diagonal_moves"
              => call.moves = Walked({<<1, 1>>, <<-1, -1>>})
        /\ call.fn = "get_sliding_anti_diagonal_moves"
              => call.moves = Walked({<<-1, 1>>, <<1, -1>>})

\* A slider whose north-east ray holds a foe with a further piece behind it:
\* the main diagonal routine has stopped on the foe.
C11_Witness ==
    /\ phase = "sliding"
    /\ call.fn = "get_sliding_main_diagonal_moves"
    /\ file_x(call.origin) <= 4 /\ rank_y(call.origin) <= 4
    /\ call.origin + 18 \in get_side(board, Opposite(turn)).pieces
    /\ call.origin + 27 \in get_side(board, turn).pieces
    /\ call.origin + 9 \in call.moves
    /\ call.origin + 18 \in call.moves
    /\ call.origin + 27 \notin call.moves

\* C12: whenever the root side has at least one generated move on the root
\* board, the root search returns one of the moves generated for the root
\* side on the root board, never the placeholder move of Node::default(),
\* even when every line evaluates to Worst.
C12_RootSearchReturnsGeneratedMove ==
    (phase = "chosen" /\ list_potential_moves(board, turn) # {}) =>
        /\ ~call.best.panicked
        /\ call.best.m \in list_potential_moves(board, turn)
        /\ call.best.m # NodeDefault.m

\* The search was run for a side that has moves, and every line evaluated to
\* Worst.
C12_Witness ==
    /\ phase = "chosen"
    /\ list_potential_moves(board, turn) # {}
    /\ call.best.eval = Worst
    /\ call.best.m \in list_potential_moves(board, turn)

\* The last command the task issued.
LastCommand == task.commands[Len(task.commands)]

\* C13: if the engine's side has no move at the root when it must move, the
\* search reports that to the per-game task, which resigns the game and
\* exits, while the process and the tasks of the other games keep running.
C13_NoMoveAtRootResigns ==
    [][(/\ phase = "bot" /\ task.pc = "search"
        /\ list_potential_moves(board, task.color) = {}
        /\ task'.pc # "search" \/ task'.process # "running")
          => /\ task'.process = "running"
             /\ task'.pc = "exited"
             /\ task'.commands # <<>>
             /\ task'.commands[Len(task'.commands)].cmd = "resign"]_vars


\* The sum of the twelve popcounts of a board.
PieceTotal(b) == KindCount(b.white) + KindCount(b.black)

\* C14: along every sequence of generated moves applied by apply_move from
\* the default board, the total number of pieces never increases from one
\* position to the next, is at most 32, and is at least 2 with both kings
\* still on the board.
C14_PieceTotalBounded ==
    phase = "search" =>
        /\ PieceTotal(board) <= PieceTotal(prev)
        /\ PieceTotal(board) <= 32
        /\ PieceTotal(board) >= 2
        /\ popcnt(board.white.king) = 1
        /\ popcnt(board.black.king) = 1


\* C15: Board::from_fen returns an error value (neither a Board nor a
\* panic) for every malformed input: a placement without exactly 8 ranks,
\* a character that is neither a digit nor a piece letter, a rank that
\* does not total 8 files (too few or too many), a missing field, or an en
\* passant square that is not on rank 3 or rank 6.
C15_FromFenRejectsMalformed ==
    (phase = "fen" /\ call.fn = "from_fen" /\ Malformed(fen)) => call.status = "err"


\* The commands of the given kind the task has issued.
Issued(cmd) == {i \in 1..Len(task.commands) : task.commands[i].cmd = cmd}

\* C16: if Abort is sent to the game's channel while the game's search is
\* running (the task is suspended on the one-shot reply), the result of the
\* search is discarded: no make-move command is submitted to the service
\* after that Abort was sent.
C16_NoMoveAfterAbortDuringSearch ==
    phase = "bot" => \A i \in Issued("move") : ~task.commands[i].after_abort

\* C17: once the task dequeues Abort it exits: it handles no message
\* enqueued after that Abort and issues no further command, and a message
\* sent later to its channel is dropped while its sender carries on.
C17_AbortEndsTask ==
    /\ [](phase = "bot" /\ task.exit_by = "abort"
            => /\ task.pc = "exited"
               /\ task.queue = <<>>
               /\ task.handled[Len(task.handled)] = "Abort")
    /\ [][phase = "bot" =>
            /\ (task.pc # "exited" /\ task.queue # <<>> /\ task.queue[1].kind = "Abort"
                    /\ task'.handled # task.handled)
                  => /\ task'.exit_by = "abort"
                     /\ task'.handled = Append(task.handled, "Abort")
                     /\ task'.commands = task.commands
            /\ task.exit_by = "abort"
                  => /\ task'.exit_by = "abort"
                     /\ task'.handled = task.handled
                     /\ task'.commands = task.commands
                     /\ task'.process = "running"
                     /\ task'.sends > task.sends => task'.dropped = task.dropped + 1]_vars

\* C17 witness: the task has exited on Abort leaving a message that was
\* queued behind the Abort, and a message sent afterwards was dropped.
C17_Witness ==
    /\ phase = "bot"
    /\ task.exit_by = "abort"
    /\ task.dropped > 0
    /\ task.sends > Len(task.handled) - 1 + task.dropped

\* C18: if submitting the chosen move fails (after a move of the opponent
\* or after SetBoard on the bot's turn), the task issues resign exactly
\* once and exits without handling any further message or issuing any
\* further command; the process with the other games' tasks keeps running.
C18_FailedMoveResignsOnce ==
    /\ [](phase = "bot" =>
            \A i \in Issued("move") :
               ~task.commands[i].ok
                 => /\ Len(task.commands) = i + 1
                    /\ task.commands[i + 1].cmd = "resign"
                    /\ Cardinality(Issued("resign")) = 1
                    /\ task.pc = "exited"
                    /\ task.exit_by = "resigned"
                    /\ task.process = "running")
    /\ [][(phase = "bot" /\ task.exit_by = "resigned")
            => /\ task'.handled = task.handled
               /\ task'.commands = task.commands
               /\ task'.process = "running"]_vars

\* C18 witness: a submission failed after a move of the opponent, the task
\* resigned, and a message was sent to its channel afterwards.
C18_Witness ==
    /\ phase = "bot"
    /\ \E i \in Issued("move") : ~task.commands[i].ok
    /\ task.opponent_last_move # NoMove
    /\ task.dropped > 0

\* Whether the challenge's task issued accept.
AcceptIssued == Issued("accept") # {}

\* C19: a challenge is accepted iff config.no_accept is false and
\* (config.following_only is false or the bot follows the challenger, as
\* the followings lookup tells); in every other case, a failed lookup
\* included, it is declined with a textual reason and the task exits.  With
\* no_accept set no challenge is ever accepted.
C19_AcceptIffConfigAllows ==
    (phase = "bot" /\ task.started_by = "NewChallenge" /\ task.handled # <<>>)
        => /\ AcceptIssued <=>
                 /\ ~task.config.no_accept
                 /\ ~task.config.following_only \/ (task.lookup_ok /\ task.follows)
           /\ ~AcceptIssued
                 => /\ Len(task.commands) = 1
                    /\ task.commands[1].cmd = "decline"
                    /\ task.commands[1].reason # ""
                    /\ task.pc = "exited"
           /\ task.config.no_accept => ~AcceptIssued

\* C19 witness: with following_only set and the challenger followed, the
\* lookup failed and the challenge was declined.
C19_Witness ==
    /\ phase = "bot"
    /\ task.started_by = "NewChallenge"
    /\ task.config.following_only /\ ~task.config.no_accept
    /\ task.follows /\ ~task.lookup_ok
    /\ Issued("decline") # {}
    /\ task.pc = "exited"


\* The square df files and dr ranks from sq towards the far side of color,
\* as a set: empty when it is off the board.
Towards(sq, color, df, dr) ==
    LET f == file_x(sq) + df
        r == IF color = "White" THEN rank_y(sq) + dr ELSE rank_y(sq) - dr
    IN  IF f \in 0..7 /\ r \in 0..7 THEN {Pos(f, r)} ELSE {}

\* The pawn moves of the contract: the single step, the double step from
\* the start rank and the two captures.
ExpectedPawnMoves(b, color, sq) ==
    LET occupied   == get_bitboard(b)
        foes       == get_side(b, Opposite(color)).pieces
        start_rank == IF color = "White" THEN 1 ELSE 6
        one        == Towards(sq, color, 0, 1)
        two        == Towards(sq, color, 0, 2)
    IN  (one \ occupied)
        \cup (IF rank_y(sq) = start_rank /\ (one \cup two) \cap occupied = {} THEN two ELSE {})
        \cup ((Towards(sq, color, -1, 1) \cup Towards(sq, color, 1, 1)) \cap foes)

\* C20: for a single pawn of either colour on any square and any occupancy
\* (no en passant target), get_pawn_moves_and_attacks returns exactly the
\* square one rank forward if it is empty, the square two ranks forward if
\* the pawn is on its start rank and that square and the one in between are
\* empty, and each forward-diagonal square that is on the board (no wrap
\* between the a and h files) and holds an opposing piece.
C20_PawnMovesAndAttacks ==
    (phase = "pawn" /\ call.fn = "get_pawn_moves_and_attacks")
        => call.moves = ExpectedPawnMoves(board, turn, call.origin)

\* C20 witness: a pawn on the a file of its start rank was given its double
\* step and a capture while an opposing piece stood on the h file square
\* next to it in the bit order.
C20_Witness ==
    /\ phase = "pawn" /\ call.fn = "get_pawn_moves_and_attacks"
    /\ file_x(call.origin) = 0
    /\ Towards(call.origin, turn, 0, 2) \subseteq call.moves
    /\ Towards(call.origin, turn, 1, 1) \subseteq call.moves
    /\ Cardinality(call.moves) = 3
    /\ (IF turn = "White" THEN call.origin + 7 ELSE call.origin - 9)
          \in get_side(board, Opposite(turn)).pieces


\* The file and rank distances between two squares.
FileDistance(i, j) == Abs(file_x(i) - file_x(j))
RankDistance(i, j) == Abs(rank_y(i) - rank_y(j))

\* The squares a knight's jump away from i, and the squares a king's step
\* away from i, by their distances on the board.
KnightJumps(i) ==
    {j \in Squares : {FileDistance(i, j), RankDistance(i, j)} = {1, 2}}
KingNeighbours(i) ==
    {j \in Squares : j # i /\ FileDistance(i, j) <= 1 /\ RankDistance(i, j) <= 1}

\* C21: for every square i, bit j of KNIGHT_MOVES[i] is set iff the file and
\* rank distances between i and j are 1 and 2 in some order, and bit j of
\* KING_MOVES[i] is set iff both distances are at most 1 and j # i (no
\* entry holds a square reached across an edge of the board);
\* get_knight_moves and get_king_steps return the table entry minus the
\* mover's own pieces.
C21_StepTablesByDistance ==
    (phase = "steps" /\ call.fn # "steps")
        => /\ KNIGHT_MOVES[call.origin] = KnightJumps(call.origin)
           /\ KING_MOVES[call.origin] = KingNeighbours(call.origin)
           /\ call.fn = "get_knight_moves"
                => call.moves = KnightJumps(call.origin) \ get_side(board, turn).pieces
           /\ call.fn = "get_king_steps"
                => call.moves = KingNeighbours(call.origin) \ get_side(board, turn).pieces

\* C21 witness: get_king_steps was called for a king on the a file with an
\* own piece beside it and an opposing piece on the h file square next to
\* it in the bit order; the own piece's square is not returned.
C21_Witness ==
    /\ phase = "steps" /\ call.fn = "get_king_steps"
    /\ file_x(call.origin) = 0
    /\ KingNeighbours(call.origin) \cap get_side(board, turn).pieces # {}
    /\ call.origin - 1 \in get_side(board, Opposite(turn)).pieces
    /\ call.moves # {}


\* The king moves two files wide that the generator offers to color.
CastlingOffered(b, color) ==
    {m \in list_potential_moves(b, color) :
        m[1] \in get_side(b, color).king /\ FileDistance(m[1], m[2]) = 2}

\* C22: the generator offers the king move e1-g1 / e1-c1 (White) or e8-g8 /
\* e8-c8 (Black) iff the king has not moved, the rook of that wing is still
\* in unmoved_rooks, every square between king and rook is empty, and the
\* king is not in check and neither crosses nor reaches a square the
\* opponent attacks; get_king_steps itself never returns a square two files
\* away from the king.
C22_CastlingOfferedIffAllowed ==
    phase \in {"game", "search"}
        => /\ CastlingOffered(board, turn) = ChessCastlingMoves(board, turn)
           /\ \A k \in get_side(board, turn).king :
                 \A d \in get_king_steps(board, turn, k) : FileDistance(k, d) <= 1


\* The values the root loop of negamax sees, move by move in the generator's
\* order: the negated evaluation of each child, searched with the window
\* the loop has reached, up to the move at which the loop breaks.
RECURSIVE RootValues(_, _, _, _, _)
RootValues(b, color, moves, i, alpha) ==
    IF i > Len(moves) THEN <<>>
    ELSE LET child == negamax(color, apply_move(b, moves[i]), SearchDepth - 1,
                              EvalNeg(Best), EvalNeg(alpha), Opposite(color), <<moves[i]>>)
             v == EvalNeg(child.eval)
             new_alpha == IF EvalLess(alpha, v) THEN v ELSE alpha
         IN  IF ~EvalLess(new_alpha, Best) THEN <<v>>
             ELSE <<v>> \o RootValues(b, color, moves, i + 1, new_alpha)

\* The first move, in the generator's order, whose value at the root is the
\* greatest.
FirstBestMove(b, color) ==
    LET moves  == list_potential_moves_in_order(b, color)
        values == RootValues(b, color, moves, 1, Worst)
        best   == CHOOSE i \in 1..Len(values) :
                     /\ \A j \in 1..Len(values) : ~EvalLess(values[i], values[j])
                     /\ \A j \in 1..(i - 1) : EvalLess(values[j], values[i])
    IN  moves[best]

\* C23: in negamax a later move replaces the current best only if its
\* negated child value is strictly greater than the current value: among
\* the moves of equal best value at the root, the move returned is the
\* first one in the generator's move order.
C23_FirstOfEqualMovesKept ==
    (phase = "chosen" /\ ~call.best.panicked /\ list_potential_moves(board, turn) # {})
        => call.best.m = FirstBestMove(board, turn)


\* The tasks spawned so far for the id.
Tasks == 1..Len(task.tasks)

\* C24: when GameStart arrives while World.games holds an entry for the id,
\* the task of that entry is sent Abort before the new channel is created,
\* and afterwards World.games holds only the new task's sender: what is
\* later dispatched for the id through the world reaches the new task and
\* never the old one.
C24_GameStartReplacesTheEntry ==
    /\ [](phase = "world" =>
            /\ task.games \in {0, Len(task.tasks)}
            /\ \A k \in Tasks : \A i \in 1..Len(task.tasks[k].queue) :
                  task.tasks[k].queue[i].kind = "Abort"
                     => \A j \in (i + 1)..Len(task.tasks[k].queue) :
                           task.tasks[k].queue[j].via # "world")
    /\ [][phase = "world" =>
            /\ (/\ task.games # 0
                /\ Len(task'.tasks) = Len(task.tasks) + 1
                /\ task'.tasks[Len(task'.tasks)].started_by = "NewGame")
                  => /\ task'.games = Len(task'.tasks)
                     /\ task'.tasks[Len(task'.tasks)].queue
                            = <<[kind |-> "NewGame", via |-> "world"]>>
                     /\ \/ task.tasks[task.games].pc = "exited"
                        \/ task'.tasks[task.games].queue
                             = Append(task.tasks[task.games].queue,
                                      [kind |-> "Abort", via |-> "world"])
            /\ \A k \in Tasks :
                  (task.tasks[k].superseded_at >= 0 /\ task'.tasks[k] # task.tasks[k])
                     => /\ task'.games = task.games
                        /\ Len(task'.tasks) = Len(task.tasks)]_vars

\* C24 witness: a challenge task was superseded by GameStart with its Abort
\* queued, and an abort dispatched afterwards through the world reached the
\* new task, which exited on it.
C24_Witness ==
    /\ phase = "world"
    /\ Len(task.tasks) = 2
    /\ task.tasks[1].superseded_at >= 0
    /\ task.tasks[1].started_by = "NewChallenge"
    /\ task.tasks[2].exit_by = "abort"
    /\ task.games = 0

\* C27: at most one per-game task submits moves for a game id: once
\* handle_new_game has replaced the entry of the id, the superseded task,
\* whatever it still has queued ahead of its Abort, submits no move for
\* that game.
C27_SupersededTaskSubmitsNoMove ==
    phase = "world" =>
        \A k \in Tasks :
           task.tasks[k].superseded_at >= 0
              => \A i \in 1..Len(task.tasks[k].commands) :
                    task.tasks[k].commands[i].cmd = "move" => i <= task.tasks[k].superseded_at


\* How many messages of the given kind the task has handled.
HandledCount(kind) ==
    Cardinality({i \in 1..Len(task.handled) : task.handled[i] = kind})

\* C25: a Move message whose move equals the last recorded move of the same
\* side is ignored: the Brain's board, last_move and opponent_last_move are
\* unchanged and no search, move submission or resignation follows, so a
\* board-state event repeated with an unchanged move list changes nothing.
C25_RepeatedMoveIgnored ==
    [][(/\ phase = "bot" /\ task.process = "running"
        /\ task.pc = "recv" /\ task.queue # <<>>
        /\ task.queue[1].kind = "Move"
        /\ IF task.queue[1].color = task.color
           THEN task.queue[1].m = task.last_move
           ELSE task.queue[1].m = task.opponent_last_move
        /\ task'.handled # task.handled)
          => /\ board' = board
             /\ turn' = turn
             /\ task'.last_move = task.last_move
             /\ task'.opponent_last_move = task.opponent_last_move
             /\ task'.pc = "recv"
             /\ task'.commands = task.commands
             /\ task'.queue = Tail(task.queue)]_vars

\* C25 witness: the task has handled a move of the opponent twice, applied
\* it once, and waits on its channel.
C25_Witness ==
    /\ phase = "bot" /\ task.process = "running"
    /\ HandledCount("Move") = 2
    /\ task.opponent_last_move # NoMove /\ task.last_move = NoMove
    /\ task.pc = "recv"
    /\ board = apply_move(prev, task.opponent_last_move)


\* C26: in every position reached by apply_move from the default board or
\* from a FEN whose castling flags name rooks on their home corners, each
\* side's unmoved_rooks is a subset of that side's rooks: a rook captured on
\* its home square loses its bit like one that moved away.
C26_UnmovedRooksAreRooks ==
    phase \in {"game", "search"} =>
        /\ board.white.unmoved_rooks \subseteq board.white.rooks
        /\ board.black.unmoved_rooks \subseteq board.black.rooks

\* The starting positions satisfy the subset relation: whatever breaks it is
\* the work of apply_move.
C26_StartsWithRooksAtHome ==
    \A f \in StartFens :
        /\ from_fen(f).board.white.unmoved_rooks \subseteq from_fen(f).board.white.rooks
        /\ from_fen(f).board.black.unmoved_rooks \subseteq from_fen(f).board.black.rooks


\* A GameFinish of a game against the computer with rematch enabled, the
\* service answering both requests.
ComputerGameFinishes ==
    /\ phase = "rematch"
    /\ task'.finished = task.finished + 1
    /\ task.config.rematch
    /\ task.opponent.kind = "StockFish"
    /\ task'.last.fetch_ok /\ task'.last.send_ok

\* C28: when a game against the computer at level L finishes with rematch
\* enabled, send_rematch does not panic and issues exactly one new computer
\* challenge, at level min(L+1, stockfish_max) and never below L, for every
\* L in 1..8 and every stockfish_max including the default 0; the
\* incoming-event loop keeps running.
C28_RematchOneLevelUp ==
    [][ComputerGameFinishes =>
          /\ task'.process = "running"
          /\ task'.issued =
                Append(task.issued,
                       [kind |-> "StockFish",
                        ai_level |-> IF task.opponent.ai_level + 1 < task.config.stockfish_max
                                     THEN task.opponent.ai_level + 1
                                     ELSE task.config.stockfish_max])
          /\ task'.issued[Len(task'.issued)].ai_level >= task.opponent.ai_level]_vars

\* Where stockfish_max is not below the level played, the rematch is as
\* described: one challenge at min(L+1, stockfish_max), the loop running.
C28_RematchWithinRange ==
    [][ComputerGameFinishes /\ task.config.stockfish_max >= task.opponent.ai_level =>
          /\ task'.process = "running"
          /\ task'.issued =
                Append(task.issued,
                       [kind |-> "StockFish",
                        ai_level |-> IF task.opponent.ai_level + 1 < task.config.stockfish_max
                                     THEN task.opponent.ai_level + 1
                                     ELSE task.config.stockfish_max])]_vars


\* C29: for every board and every depth, the evaluation negamax returns
\* with the full window (alpha = Worst, beta = Best) equals the evaluation
\* of the same recursion over the same generated moves with the
\* alpha >= beta cutoff removed: pruning never changes the root value.
C29_PruningKeepsRootValue ==
    phase = "searched" =>
        /\ call.node.panicked = call.without_cutoff.panicked
        /\ call.node.eval = call.without_cutoff.eval


\* The leaves negamax evaluates below a node, its loop breaking where the
\* code's does (LeavesFrom is the loop from its i-th move on).
RECURSIVE Leaves(_, _, _, _, _, _)
RECURSIVE LeavesFrom(_, _, _, _, _, _, _, _, _)
Leaves(genius_color, b, depth, alpha, beta, color) ==
    LET moves == list_potential_moves_in_order(b, color)
    IN  IF depth = 0 \/ moves = <<>> THEN 1
        ELSE LeavesFrom(genius_color, b, depth, alpha, beta, color, moves, 1, NodeDefault)

LeavesFrom(genius_color, b, depth, alpha, beta, color, moves, i, value) ==
    IF i > Len(moves) THEN 0
    ELSE LET window == ChildWindow(alpha, beta)
             outcome == apply_move(b, moves[i])
             child == negamax(genius_color, outcome, depth - 1, window.alpha,
                              window.beta, Opposite(color), <<moves[i]>>)
             below == Leaves(genius_color, outcome, depth - 1, window.alpha,
                             window.beta, Opposite(color))
             new_value == NodeMax(value, NodeNeg(child))
             new_alpha == EvalMax(alpha, new_value.eval)
         IN  IF ~EvalLess(new_alpha, beta) THEN below
             ELSE below + LeavesFrom(genius_color, b, depth, new_alpha, beta, color,
                                     moves, i + 1, new_value)

\* The leaves of the whole tree below a node.
RECURSIVE AllLeaves(_, _, _)
RECURSIVE AllLeavesFrom(_, _, _, _, _)
AllLeaves(b, depth, color) ==
    LET moves == list_potential_moves_in_order(b, color)
    IN  IF depth = 0 \/ moves = <<>> THEN 1
        ELSE AllLeavesFrom(b, depth, color, moves, 1)

AllLeavesFrom(b, depth, color, moves, i) ==
    IF i > Len(moves) THEN 0
    ELSE AllLeaves(apply_move(b, moves[i]), depth - 1, Opposite(color))
            + AllLeavesFrom(b, depth, color, moves, i + 1)

\* A search to the full depth in which the cutoff left part of the tree
\* unvisited, and the value is that of the whole tree.
C29_Witness ==
    /\ phase = "searched"
    /\ call.depth = SearchDepth
    /\ ~call.node.panicked /\ ~call.without_cutoff.panicked
    /\ call.node.eval = call.without_cutoff.eval
    /\ Leaves(call.genius_color, board, SearchDepth, Worst, Best, turn)
          < AllLeaves(board, SearchDepth, turn)


\* The value, at the node searched, of the line that starts there: the
\* evaluation negamax gives the node the line ends in, negated once for
\* every ply of the line.
RECURSIVE Negated(_, _)
Negated(e, n) == IF n = 0 THEN e ELSE Negated(EvalNeg(e), n - 1)

RECURSIVE ApplyLine(_, _)
ApplyLine(b, line) ==
    IF line = <<>> THEN b ELSE ApplyLine(apply_move(b, line[1]), Tail(line))

LineEndColor(color, line) == IF Len(line) % 2 = 0 THEN color ELSE Opposite(color)

LineValue(genius_color, b, color, line) ==
    Negated(negamax(genius_color, ApplyLine(b, line), 0, Worst, Best,
                    LineEndColor(color, line), line).eval,
            Len(line))

\* The lines of one and of two generated moves from the node, none of whose
\* moves panics in apply_move.
LinesOfOne(b, color) ==
    {<<m>> : m \in {x \in list_potential_moves(b, color) : ~apply_move_panics(b, x)}}

LinesOfTwo(b, color) ==
    UNION {{l \o <<r>> :
              r \in {x \in list_potential_moves(apply_move(b, l[1]), Opposite(color)) :
                        ~apply_move_panics(apply_move(b, l[1]), x)}} :
           l \in LinesOfOne(b, color)}

\* C30: terminal values are sign-consistent with the negation applied at
\* each ply: a move of the genius after which the opponent has no move is
\* valued Best at the node searched, and so is the node; a line ending with
\* the genius having no move is valued Worst there.
C30_TerminalValuesSignConsistent ==
    (/\ phase = "searched" /\ call.depth = SearchDepth
     /\ turn = call.genius_color /\ ~call.node.panicked)
        => /\ \A l \in LinesOfOne(board, turn) :
                 list_potential_moves(ApplyLine(board, l), Opposite(turn)) = {}
                    => /\ LineValue(turn, board, turn, l) = Best
                       /\ call.node.eval = Best
           /\ \A l \in LinesOfTwo(board, turn) :
                 list_potential_moves(ApplyLine(board, l), turn) = {}
                    => LineValue(turn, board, turn, l) = Worst

\* The half of C30 about the genius: a line ending with the genius having
\* no move is valued Worst at the node searched.
C30_GeniusWithoutMoveIsWorst ==
    (/\ phase = "searched" /\ call.depth = SearchDepth
     /\ turn = call.genius_color /\ ~call.node.panicked)
        => \A l \in LinesOfTwo(board, turn) :
              list_potential_moves(ApplyLine(board, l), turn) = {}
                 => LineValue(turn, board, turn, l) = Worst

\* A search in which some line ends with the genius having no move.
C30_GeniusWithoutMoveReached ==
    /\ phase = "searched" /\ call.depth = SearchDepth
    /\ turn = call.genius_color /\ ~call.node.panicked
    /\ \E l \in LinesOfTwo(board, turn) :
          list_potential_moves(ApplyLine(board, l), turn) = {}

=============================================================================
